---- MODULE Spec2Model ----
(***************************************************************************)
(* A model of nolint's annotation engine: the AnnotatedFile document, the  *)
(* decision engine (apply_decision), the function boundary resolvers, the  *)
(* renderer and the style cycling of the interactive review loop.          *)
(*                                                                         *)
(* Strings are sequences of characters.  The comment keywords the program  *)
(* emits ("// NOLINT(" and friends) and the rule ids are single atoms: no  *)
(* source line of the model contains them, so equality of atom sequences   *)
(* is equality of the strings.                                             *)
(***************************************************************************)
EXTENDS Integers, Sequences, FiniteSets, TLC

VARIABLES
    orig,      \* the lines the document was created from
    file,      \* the AnnotatedFile
    before,    \* the AnnotatedFile as it was when the last call was made
    last,      \* the arguments of the last apply_decision call, if any
    resolved,  \* the range the boundary resolver returned in the last call, if it ran
    applied,   \* number of apply_decision calls made
    model,     \* the UIModel of the interactive review loop
    trail,     \* the last two inputs, each with the mode and the style shown before it
    search,    \* the warning list on screen and the filter text entered last
    found,     \* the indices the filter returned for it
    session,   \* the lines of the session file
    saved,     \* the decision map the session file was written from, if it was
    loaded,    \* the decision map read back from the session file, once it was
    main,      \* the state of the full-screen front end (src/main.cpp)
    run,       \* the state of one run of NolintApp::run
    processor, \* the state of NolintProcessor::process_warnings
    shown,     \* a statistics record and the percentage computed from it
    transformed \* the lines of a file, a Modification and the lines it produced

engine_vars == <<orig, file, before, last, resolved, applied>>
ui_vars == <<model, trail>>
filter_vars == <<search, found>>
session_vars == <<session, saved, loaded>>
app_vars == <<main, run, processor, shown, transformed>>
vars == <<orig, file, before, last, resolved, applied, model, trail, search, found,
          session, saved, loaded, main, run, processor, shown,
          transformed>>

(***************************************************************************)
(* Bounds of the model.                                                    *)
(***************************************************************************)
MaxLines == 2
MaxOps == 2
MaxFunctionLines == 2
MaxWarnings == 2
MaxQuery == 3
MaxDecisions == 2
MaxSessionLines == 2
MaxIndex == 3
MaxCount == 12

(***************************************************************************)
(* size_t arithmetic.  The program computes with 64 bit unsigned integers; *)
(* the model keeps the wrap-around at a narrower width: every line number  *)
(* and every line count of the model is far below 2^SizeBits, so the same  *)
(* subtractions wrap and the same comparisons hold as at 64 bits.          *)
(***************************************************************************)
SizeBits == 16
SizeMod == 2 ^ SizeBits
SIZE_MAX == SizeMod - 1
USub(a, b) == (a - b + SizeMod) % SizeMod
UAdd(a, b) == (a + b) % SizeMod
Min(a, b) == IF a < b THEN a ELSE b

(***************************************************************************)
(* std::optional                                                           *)
(***************************************************************************)
NullOpt == <<>>
Some(v) == <<v>>
HasValue(o) == Len(o) = 1
Value(o) == o[1]

(***************************************************************************)
(* Input alphabets.                                                        *)
(***************************************************************************)
SP == " "
RuleIds == {"r1", "r2"}
Styles == {"NONE", "NOLINT_SPECIFIC", "NOLINTNEXTLINE", "NOLINT_BLOCK"}

\* A source file with an indented statement, a closing brace at the same
\* indentation, an empty line and a line of whitespace only.  The documents
\* of the model are the runs of at most MaxLines consecutive lines of it.
SampleSource == << <<SP, "x">>, <<SP, "}">>, <<>>, <<SP>> >>

LineLists ==
    UNION { { SubSeq(SampleSource, from, from + n - 1) :
                n \in 0..Min(MaxLines, Len(SampleSource) - from + 1) } :
            from \in 1..Len(SampleSource) }

Warning(line, rule, fl) ==
    [line_number |-> line, warning_type |-> rule, function_lines |-> fl]

Warnings ==
    { Warning(l, r, fl) : l \in 0..(MaxLines + 1), r \in RuleIds,
                          fl \in {NullOpt} \cup { Some(n) : n \in 0..MaxFunctionLines } }

(***************************************************************************)
(* AnnotatedFile                                                           *)
(***************************************************************************)
IsWhitespace(c) == c = SP \/ c = "\t"

RECURSIVE find_first_not_of_ws(_, _)
\* index (0-based) of the first character at or after i that is neither a
\* space nor a tab; Len(line) stands for npos
find_first_not_of_ws(line, i) ==
    IF i >= Len(line) THEN Len(line)
    ELSE IF IsWhitespace(line[i + 1]) THEN find_first_not_of_ws(line, i + 1)
    ELSE i

extract_indentation(line) ==
    LET first_non_space == find_first_not_of_ws(line, 0)
    IN IF first_non_space = Len(line) THEN <<>>
       ELSE SubSeq(line, 1, first_non_space)

AnnotatedLine(text) ==
    [text |-> text, before_comments |-> <<>>, inline_comment |-> NullOpt]

\* a loader that drops blank lines
create_annotated_file_skipping_blank(lines) ==
    LET kept == SelectSeq(lines, LAMBDA l : l # <<>>)
    IN [lines |-> [i \in 1..Len(kept) |-> AnnotatedLine(kept[i])], blocks |-> <<>>]

create_annotated_file(lines) ==
    [lines |-> [i \in 1..Len(lines) |-> AnnotatedLine(lines[i])], blocks |-> <<>>]

\* file.lines[i] for a 0-based i
LineAt(f, i) == f.lines[i + 1]

Texts(f) == [i \in 1..Len(f.lines) |-> f.lines[i].text]

BlockSuppression(s, e, type) ==
    [start_line |-> s, end_line |-> e, warning_type |-> type]

BeginComment(indent, type) == indent \o <<"// NOLINTBEGIN(", type, ")">>
EndComment(indent, type) == indent \o <<"// NOLINTEND(", type, ")">>
NextLineComment(indent, type) == indent \o <<"// NOLINTNEXTLINE(", type, ")">>
InlineComment(type) == <<"// NOLINT(", type, ")">>

BeginLines(f, i) ==
    LET starting == SelectSeq(f.blocks, LAMBDA b : b.start_line = i)
    IN [k \in 1..Len(starting) |->
           BeginComment(extract_indentation(LineAt(f, i).text), starting[k].warning_type)]

EndLines(f, i) ==
    LET ending == SelectSeq(f.blocks, LAMBDA b : b.end_line = i)
    IN [k \in 1..Len(ending) |->
           EndComment(extract_indentation(LineAt(f, i).text), ending[k].warning_type)]

CodeLine(l) ==
    IF HasValue(l.inline_comment) THEN l.text \o <<SP, SP>> \o Value(l.inline_comment)
    ELSE l.text

\* a renderer that emits the next-line comments ahead of the block-begin markers
RenderLine_comments_first(f, i) ==
    LineAt(f, i).before_comments \o BeginLines(f, i) \o <<CodeLine(LineAt(f, i))>>
        \o EndLines(f, i)

RenderLine(f, i) ==
    BeginLines(f, i) \o LineAt(f, i).before_comments \o <<CodeLine(LineAt(f, i))>>
        \o EndLines(f, i)

RECURSIVE RenderFrom(_, _)
RenderFrom(f, i) ==
    IF i >= Len(f.lines) THEN <<>>
    ELSE RenderLine(f, i) \o RenderFrom(f, i + 1)

render_annotated_file(f) == RenderFrom(f, 0)

(***************************************************************************)
(* Boundary resolvers                                                      *)
(***************************************************************************)
find_function_boundaries(line_range, warning) ==
    IF ~HasValue(warning.function_lines) \/ warning.line_number = 0
    THEN <<USub(warning.line_number, 1), USub(warning.line_number, 1)>>
    ELSE LET start_line == USub(warning.line_number, 1)
             end_line == USub(UAdd(start_line, Value(warning.function_lines)), 1)
             range_size == Len(line_range)
             limit == IF range_size > 0 THEN range_size - 1 ELSE 0
         IN <<Min(start_line, limit), Min(end_line, limit)>>

(***************************************************************************)
(* Decision engine (nolint::functional_core::apply_decision)               *)
(***************************************************************************)
\* an engine that inserts the next-line comment into the line sequence itself
ApplyInRange_inserting(f, warning, style) ==
    LET line_index == USub(warning.line_number, 1)
        indent == extract_indentation(LineAt(f, line_index).text)
    IN CASE style = "NONE" -> f
         [] style = "NOLINT_SPECIFIC" ->
              [f EXCEPT !.lines[line_index + 1].inline_comment =
                            Some(InlineComment(warning.warning_type))]
         [] style = "NOLINTNEXTLINE" ->
              [f EXCEPT !.lines =
                  SubSeq(@, 1, line_index)
                      \o <<AnnotatedLine(NextLineComment(indent, warning.warning_type))>>
                      \o SubSeq(@, line_index + 1, Len(@))]
         [] style = "NOLINT_BLOCK" ->
              IF HasValue(warning.function_lines)
              THEN LET b == find_function_boundaries(Texts(f), warning)
                   IN [f EXCEPT !.blocks =
                          Append(@, BlockSuppression(b[1], b[2], warning.warning_type))]
              ELSE f

\* an engine that renumbers the recorded blocks when a comment goes in above them
ApplyInRange_shifting(f, warning, style) ==
    LET line_index == USub(warning.line_number, 1)
        indent == extract_indentation(LineAt(f, line_index).text)
    IN CASE style = "NONE" -> f
         [] style = "NOLINT_SPECIFIC" ->
              [f EXCEPT !.lines[line_index + 1].inline_comment =
                            Some(InlineComment(warning.warning_type))]
         [] style = "NOLINTNEXTLINE" ->
              [f EXCEPT !.lines[line_index + 1].before_comments =
                            Append(@, NextLineComment(indent, warning.warning_type)),
                        !.blocks =
                            [k \in 1..Len(@) |->
                                IF @[k].start_line >= line_index
                                THEN [@[k] EXCEPT !.start_line = @ + 1, !.end_line = @ + 1]
                                ELSE @[k]]]
         [] style = "NOLINT_BLOCK" ->
              IF HasValue(warning.function_lines)
              THEN LET b == find_function_boundaries(Texts(f), warning)
                   IN [f EXCEPT !.blocks =
                          Append(@, BlockSuppression(b[1], b[2], warning.warning_type))]
              ELSE f

\* an engine that merges a second rule id into an existing inline comment
ApplyInRange_merging(f, warning, style) ==
    LET line_index == USub(warning.line_number, 1)
        indent == extract_indentation(LineAt(f, line_index).text)
    IN CASE style = "NONE" -> f
         [] style = "NOLINT_SPECIFIC" ->
              [f EXCEPT !.lines[line_index + 1].inline_comment =
                            IF HasValue(@)
                            THEN Some(SubSeq(Value(@), 1, Len(Value(@)) - 1)
                                          \o <<",", warning.warning_type, ")">>)
                            ELSE Some(InlineComment(warning.warning_type))]
         [] style = "NOLINTNEXTLINE" ->
              [f EXCEPT !.lines[line_index + 1].before_comments =
                            Append(@, NextLineComment(indent, warning.warning_type))]
         [] style = "NOLINT_BLOCK" ->
              IF HasValue(warning.function_lines)
              THEN LET b == find_function_boundaries(Texts(f), warning)
                   IN [f EXCEPT !.blocks =
                          Append(@, BlockSuppression(b[1], b[2], warning.warning_type))]
              ELSE f

\* an engine that leaves out a next-line comment the line already carries
ApplyInRange_deduplicating(f, warning, style) ==
    LET line_index == USub(warning.line_number, 1)
        indent == extract_indentation(LineAt(f, line_index).text)
        comment == NextLineComment(indent, warning.warning_type)
    IN CASE style = "NONE" -> f
         [] style = "NOLINT_SPECIFIC" ->
              [f EXCEPT !.lines[line_index + 1].inline_comment =
                            Some(InlineComment(warning.warning_type))]
         [] style = "NOLINTNEXTLINE" ->
              [f EXCEPT !.lines[line_index + 1].before_comments =
                            IF \E k \in 1..Len(@) : @[k] = comment THEN @
                            ELSE Append(@, comment)]
         [] style = "NOLINT_BLOCK" ->
              IF HasValue(warning.function_lines)
              THEN LET b == find_function_boundaries(Texts(f), warning)
                   IN [f EXCEPT !.blocks =
                          Append(@, BlockSuppression(b[1], b[2], warning.warning_type))]
              ELSE f

\* an engine that falls back to an inline comment when the size hint is missing
ApplyInRange_falling_back(f, warning, style) ==
    LET line_index == USub(warning.line_number, 1)
        indent == extract_indentation(LineAt(f, line_index).text)
    IN CASE style = "NONE" -> f
         [] style = "NOLINT_SPECIFIC" ->
              [f EXCEPT !.lines[line_index + 1].inline_comment =
                            Some(InlineComment(warning.warning_type))]
         [] style = "NOLINTNEXTLINE" ->
              [f EXCEPT !.lines[line_index + 1].before_comments =
                            Append(@, NextLineComment(indent, warning.warning_type))]
         [] style = "NOLINT_BLOCK" ->
              IF HasValue(warning.function_lines)
              THEN LET b == find_function_boundaries(Texts(f), warning)
                   IN [f EXCEPT !.blocks =
                          Append(@, BlockSuppression(b[1], b[2], warning.warning_type))]
              ELSE [f EXCEPT !.lines[line_index + 1].inline_comment =
                                 Some(InlineComment(warning.warning_type))]

ApplyInRange(f, warning, style) ==
    LET line_index == USub(warning.line_number, 1)
        indent == extract_indentation(LineAt(f, line_index).text)
    IN CASE style = "NONE" -> f
         [] style = "NOLINT_SPECIFIC" ->
              [f EXCEPT !.lines[line_index + 1].inline_comment =
                            Some(InlineComment(warning.warning_type))]
         [] style = "NOLINTNEXTLINE" ->
              [f EXCEPT !.lines[line_index + 1].before_comments =
                            Append(@, NextLineComment(indent, warning.warning_type))]
         [] style = "NOLINT_BLOCK" ->
              IF HasValue(warning.function_lines)
              THEN LET b == find_function_boundaries(Texts(f), warning)
                   IN [f EXCEPT !.blocks =
                          Append(@, BlockSuppression(b[1], b[2], warning.warning_type))]
              ELSE f

\* an engine that moves a stale line number to the nearest line of the file
apply_decision_clamping(f, warning, style) ==
    IF Len(f.lines) = 0 THEN f
    ELSE LET nearest == IF warning.line_number = 0 THEN 1
                        ELSE Min(warning.line_number, Len(f.lines))
         IN ApplyInRange(f, [warning EXCEPT !.line_number = nearest], style)

apply_decision(f, warning, style) ==
    IF warning.line_number = 0 \/ warning.line_number > Len(f.lines) THEN f
    ELSE ApplyInRange(f, warning, style)

\* the range the resolver handed back during the call, when it was called
ResolvedBy(f, warning, style) ==
    IF /\ warning.line_number # 0
       /\ warning.line_number <= Len(f.lines)
       /\ style = "NOLINT_BLOCK"
       /\ HasValue(warning.function_lines)
    THEN Some(find_function_boundaries(Texts(f), warning))
    ELSE NullOpt

(***************************************************************************)
(* The earlier engine (src/annotated_file.cpp), still used by FileModifier *)
(***************************************************************************)
search_range == 10

HasBrace(line) == \E k \in 1..Len(line) : line[k] = "}"

\* the line is the function's indentation followed by a closing brace
IsClosingBraceLine(line, indent) ==
    /\ HasBrace(line)
    /\ LET non_whitespace_pos == find_first_not_of_ws(line, 0)
       IN /\ extract_indentation(line) = indent
          /\ non_whitespace_pos # Len(line)
          /\ line[non_whitespace_pos + 1] = "}"

RECURSIVE SearchClosingBrace(_, _, _, _, _)
SearchClosingBrace(f, i, search_end, indent, expected_end_index) ==
    IF ~(i < search_end) THEN expected_end_index
    ELSE IF IsClosingBraceLine(LineAt(f, i).text, indent) THEN i
    ELSE SearchClosingBrace(f, UAdd(i, 1), search_end, indent, expected_end_index)

find_function_closing_brace(f, start_line_index, function_lines, indent) ==
    LET function_end_line_1based == (start_line_index + 1) + function_lines - 1
        expected_end_index == USub(function_end_line_1based, 1)
        search_end == Min(UAdd(expected_end_index, search_range), Len(f.lines))
    IN SearchClosingBrace(f, expected_end_index, search_end, indent, expected_end_index)

apply_inline_suppression(f, line_index, warning_type) ==
    [f EXCEPT !.lines[line_index + 1].inline_comment = Some(InlineComment(warning_type))]

apply_nextline_suppression(f, line_index, warning_type) ==
    LET indent == extract_indentation(LineAt(f, line_index).text)
    IN [f EXCEPT !.lines[line_index + 1].before_comments =
                     Append(@, NextLineComment(indent, warning_type))]

apply_block_suppression(f, line_index, warning) ==
    IF HasValue(warning.function_lines)
    THEN LET indent == extract_indentation(LineAt(f, line_index).text)
             closing_brace_index ==
                 find_function_closing_brace(f, line_index, Value(warning.function_lines),
                                             indent)
         IN [f EXCEPT !.blocks =
                Append(@, BlockSuppression(line_index, closing_brace_index,
                                           warning.warning_type))]
    ELSE [f EXCEPT !.blocks =
             Append(@, BlockSuppression(line_index, line_index, warning.warning_type))]

legacy_apply_decision(f, warning, style) ==
    IF warning.line_number < 1 \/ warning.line_number > Len(f.lines) THEN f
    ELSE
      LET line_index == warning.line_number - 1
      IN CASE style = "NONE" -> f
           [] style = "NOLINT_SPECIFIC" ->
                apply_inline_suppression(f, line_index, warning.warning_type)
           [] style = "NOLINTNEXTLINE" ->
                apply_nextline_suppression(f, line_index, warning.warning_type)
           [] style = "NOLINT_BLOCK" -> apply_block_suppression(f, line_index, warning)

\* the range the earlier engine's resolver handed back during the call
LegacyResolvedBy(f, warning, style) ==
    IF /\ warning.line_number >= 1
       /\ warning.line_number <= Len(f.lines)
       /\ style = "NOLINT_BLOCK"
       /\ HasValue(warning.function_lines)
    THEN LET line_index == warning.line_number - 1
         IN Some(<<line_index,
                   find_function_closing_brace(f, line_index, Value(warning.function_lines),
                       extract_indentation(LineAt(f, line_index).text))>>)
    ELSE NullOpt

(***************************************************************************)
(* Warnings and styles of the review loop (src/core/warning.cpp)           *)
(***************************************************************************)
UIWarning(path, line, column, rule, fl) ==
    [file_path |-> path, line_number |-> line, column_number |-> column,
     warning_type |-> rule, function_lines |-> fl]

\* "path:line:column"
warning_key(warning) ==
    <<warning.file_path, ":", warning.line_number, ":", warning.column_number>>

is_style_available(style, warning) ==
    CASE style \in {"NONE", "NOLINT_SPECIFIC", "NOLINTNEXTLINE"} -> TRUE
      [] style = "NOLINT_BLOCK" -> HasValue(warning.function_lines)
      [] OTHER -> FALSE

\* a cycle that stays on NOLINTNEXTLINE when the block style is unavailable
cycle_style_up_stuck(current, warning) ==
    CASE current = "NONE" -> "NOLINT_SPECIFIC"
      [] current = "NOLINT_SPECIFIC" -> "NOLINTNEXTLINE"
      [] current = "NOLINTNEXTLINE" ->
            IF is_style_available("NOLINT_BLOCK", warning) THEN "NOLINT_BLOCK"
            ELSE "NOLINTNEXTLINE"
      [] current = "NOLINT_BLOCK" -> "NONE"
      [] OTHER -> "NONE"

cycle_style_up(current, warning) ==
    CASE current = "NONE" -> "NOLINT_SPECIFIC"
      [] current = "NOLINT_SPECIFIC" -> "NOLINTNEXTLINE"
      [] current = "NOLINTNEXTLINE" ->
            IF is_style_available("NOLINT_BLOCK", warning) THEN "NOLINT_BLOCK" ELSE "NONE"
      [] current = "NOLINT_BLOCK" -> "NONE"
      [] OTHER -> "NONE"

\* a downward cycle that offers the block style whether or not it is available
cycle_style_down_unchecked(current, warning) ==
    CASE current = "NONE" -> "NOLINT_BLOCK"
      [] current = "NOLINT_SPECIFIC" -> "NONE"
      [] current = "NOLINTNEXTLINE" -> "NOLINT_SPECIFIC"
      [] current = "NOLINT_BLOCK" -> "NOLINTNEXTLINE"
      [] OTHER -> "NONE"

cycle_style_down(current, warning) ==
    CASE current = "NONE" ->
            IF is_style_available("NOLINT_BLOCK", warning) THEN "NOLINT_BLOCK"
            ELSE "NOLINTNEXTLINE"
      [] current = "NOLINT_SPECIFIC" -> "NONE"
      [] current = "NOLINTNEXTLINE" -> "NOLINT_SPECIFIC"
      [] current = "NOLINT_BLOCK" -> "NOLINTNEXTLINE"
      [] OTHER -> "NONE"

(***************************************************************************)
(* UIModel and the update function of the review loop                      *)
(* (include/nolint/ui/ui_model.hpp, src/application/nolint_app.cpp)        *)
(***************************************************************************)
\* Two warnings of different rules reported at the same place, the first with a
\* function size hint, and a third warning further down.
SampleWarnings ==
    << UIWarning("a.cpp", 1, 1, "r1", Some(2)),
       UIWarning("a.cpp", 1, 1, "r2", NullOpt),
       UIWarning("a.cpp", 2, 1, "r2", NullOpt) >>

EmptyDecisions == [k \in {} |-> "NONE"]

UIModel(warnings) ==
    [warnings |-> warnings,
     decisions |-> EmptyDecisions,
     current_index |-> 0,
     mode |-> "REVIEWING",
     search_input |-> <<>>,
     filtered_indices |-> <<>>,
     current_stats_index |-> 0,
     warning_stats |-> <<>>,
     visited_warnings |-> {},
     show_boundary_message |-> FALSE,
     status_message |-> <<>>,
     quit_confirmation_needed |-> FALSE]

get_active_warning_count(m) ==
    IF Len(m.filtered_indices) = 0 THEN Len(m.warnings) ELSE Len(m.filtered_indices)

get_actual_warning_index(m) ==
    IF Len(m.filtered_indices) = 0 THEN m.current_index
    ELSE m.filtered_indices[m.current_index + 1]

get_current_style(m) ==
    IF Len(m.warnings) = 0 THEN "NONE"
    ELSE LET key == warning_key(m.warnings[get_actual_warning_index(m) + 1])
         IN IF key \in DOMAIN m.decisions THEN m.decisions[key] ELSE "NONE"

SetDecision(decisions, key, style) ==
    [k \in DOMAIN decisions \cup {key} |-> IF k = key THEN style ELSE decisions[k]]

update_navigation(m, event) ==
    LET active_count == get_active_warning_count(m)
    IN CASE event = "ARROW_LEFT" ->
              IF m.current_index > 0
              THEN [m EXCEPT !.current_index = @ - 1, !.show_boundary_message = FALSE]
              ELSE [m EXCEPT !.show_boundary_message = TRUE,
                             !.status_message = <<"Already at first warning.">>]
         [] event = "ARROW_RIGHT" ->
              IF m.current_index < USub(active_count, 1)
              THEN [m EXCEPT !.current_index = @ + 1, !.show_boundary_message = FALSE]
              ELSE [m EXCEPT !.show_boundary_message = TRUE,
                             !.status_message = <<"Already at last warning.">>]
         [] OTHER -> m

\* the rule ids in the order std::sort puts them
SortedRules == <<"r1", "r2">>

WarningTypeStats(type) ==
    [warning_type |-> type, total_count |-> 0, addressed_count |-> 0, visited_count |-> 0]

\* the loop over the warnings: stats_map after the first n warnings
RECURSIVE stats_map_after(_, _, _, _)
stats_map_after(n, warnings, decisions, visited_warnings) ==
    IF n = 0 THEN [type \in {} |-> WarningTypeStats(type)]
    ELSE LET stats_map == stats_map_after(n - 1, warnings, decisions, visited_warnings)
             warning == warnings[n]
             type == warning.warning_type
             warning_key_str == warning_key(warning)
             stats == IF type \in DOMAIN stats_map THEN stats_map[type]
                      ELSE WarningTypeStats(type)
             counted ==
                 [stats EXCEPT
                    !.total_count = @ + 1,
                    !.addressed_count =
                        IF /\ warning_key_str \in DOMAIN decisions
                           /\ decisions[warning_key_str] # "NONE"
                        THEN @ + 1 ELSE @,
                    !.visited_count =
                        IF warning_key_str \in visited_warnings THEN @ + 1 ELSE @]
         IN [t \in DOMAIN stats_map \cup {type} |->
                IF t = type THEN counted ELSE stats_map[t]]

\* statistics that take every decision, "no suppression" included, as addressed
calculate_statistics_counting_none(warnings, decisions, visited_warnings) ==
    LET stats_map == stats_map_after(Len(warnings), warnings,
                                     [k \in DOMAIN decisions |-> "NOLINT_SPECIFIC"],
                                     visited_warnings)
        present(type) == type \in DOMAIN stats_map
        types == SelectSeq(SortedRules, present)
    IN [k \in 1..Len(types) |-> stats_map[types[k]]]

calculate_statistics(warnings, decisions, visited_warnings) ==
    LET stats_map == stats_map_after(Len(warnings), warnings, decisions, visited_warnings)
        present(type) == type \in DOMAIN stats_map
        types == SelectSeq(SortedRules, present)
    IN [k \in 1..Len(types) |-> stats_map[types[k]]]

\* a percentage rounded to the nearest whole number
addressed_percentage_rounding(stats) ==
    IF stats.total_count > 0
    THEN (stats.addressed_count * 100 + stats.total_count \div 2) \div stats.total_count
    ELSE 0

addressed_percentage(stats) ==
    IF stats.total_count > 0 THEN (stats.addressed_count * 100) \div stats.total_count ELSE 0

\* a confirmation that lets the first QUIT through
handle_quit_confirmation_at_once(m) == [quit |-> TRUE, model |-> m]

\* returns whether to quit, and the model with the prompt it may have set
handle_quit_confirmation(m) ==
    IF DOMAIN m.decisions = {} THEN [quit |-> TRUE, model |-> m]
    ELSE IF ~m.quit_confirmation_needed
    THEN [quit |-> FALSE,
          model |-> [m EXCEPT !.quit_confirmation_needed = TRUE,
                              !.status_message =
                                  <<"Quit without saving ",
                                    Cardinality(DOMAIN m.decisions),
                                    " decisions? Press 'q' again to confirm, any other key to cancel">>]]
    ELSE [quit |-> TRUE, model |-> m]

\* the count the review screen shows in "Suppressions: n | Warning i/total"
suppression_count(decisions) ==
    Cardinality({ key \in DOMAIN decisions : decisions[key] # "NONE" })

\* the status line of compose_review_screen
status_line(m) ==
    IF m.quit_confirmation_needed THEN m.status_message
    ELSE IF m.show_boundary_message THEN m.status_message
    ELSE IF Len(m.filtered_indices) # 0
    THEN <<"Showing ", Len(m.filtered_indices), "/", Len(m.warnings),
           " warnings (filtered: '">> \o m.search_input \o <<"')">>
    ELSE <<"Suppressions: ", suppression_count(m.decisions), " | Warning ",
           m.current_index + 1, "/", get_active_warning_count(m)>>

\* the ARROW_UP / ARROW_DOWN case of update in REVIEWING mode
CycleCurrent(m, up) ==
    IF Len(m.warnings) # 0 /\ m.current_index < get_active_warning_count(m)
    THEN LET actual_index == get_actual_warning_index(m)
         IN IF actual_index < Len(m.warnings)
            THEN LET warning == m.warnings[actual_index + 1]
                     current_style == get_current_style(m)
                     new_style == IF up THEN cycle_style_up(current_style, warning)
                                  ELSE cycle_style_down(current_style, warning)
                 IN [m EXCEPT !.decisions = SetDecision(@, warning_key(warning), new_style)]
            ELSE m
    ELSE m

\* a QUIT that leaves the decisions in the model
update_quit_keeping(m) ==
    LET asked == handle_quit_confirmation(m)
    IN IF asked.quit
       THEN [asked.model EXCEPT !.mode = "EXIT"]
       ELSE asked.model

\* case InputEvent::QUIT of update
update_quit(m) ==
    LET asked == handle_quit_confirmation(m)
    IN IF asked.quit
       THEN [asked.model EXCEPT !.mode = "EXIT", !.decisions = EmptyDecisions]
       ELSE asked.model

update(m0, event) ==
    LET m == IF event # "QUIT" /\ m0.quit_confirmation_needed
             THEN [m0 EXCEPT !.quit_confirmation_needed = FALSE, !.status_message = <<>>]
             ELSE m0
    IN CASE event \in {"ARROW_LEFT", "ARROW_RIGHT"} -> update_navigation(m, event)
         [] event = "ARROW_UP" ->
              IF m.mode = "REVIEWING" THEN CycleCurrent(m, TRUE)
              ELSE IF m.mode = "STATISTICS"
              THEN IF m.current_stats_index > 0
                   THEN [m EXCEPT !.current_stats_index = @ - 1]
                   ELSE m
              ELSE m
         [] event = "ARROW_DOWN" ->
              IF m.mode = "REVIEWING" THEN CycleCurrent(m, FALSE)
              ELSE IF m.mode = "STATISTICS"
              THEN IF Len(m.warning_stats) # 0
                      /\ m.current_stats_index < Len(m.warning_stats) - 1
                   THEN [m EXCEPT !.current_stats_index = @ + 1]
                   ELSE m
              ELSE m
         [] event = "SEARCH" ->
              IF m.mode = "REVIEWING"
              THEN [m EXCEPT !.mode = "SEARCHING", !.search_input = <<>>]
              ELSE m
         [] event = "SHOW_STATISTICS" ->
              IF m.mode = "REVIEWING"
              THEN [m EXCEPT !.mode = "STATISTICS",
                             !.current_stats_index = 0,
                             !.warning_stats =
                                 calculate_statistics(m.warnings, m.decisions,
                                                      m.visited_warnings)]
              ELSE IF m.mode = "STATISTICS" THEN [m EXCEPT !.mode = "REVIEWING"]
              ELSE m
         [] event = "ESCAPE" ->
              IF m.mode \in {"SEARCHING", "STATISTICS"}
              THEN [m EXCEPT !.mode = "REVIEWING"]
              ELSE m
         [] event = "SAVE_EXIT" -> [m EXCEPT !.mode = "EXIT"]
         [] event = "QUIT" -> update_quit(m)
         [] OTHER -> m

\* run_interactive marks the warning on screen as visited before it reads the input
MarkVisited(m) ==
    IF Len(m.warnings) # 0 /\ m.current_index < get_active_warning_count(m)
    THEN LET actual_index == get_actual_warning_index(m)
         IN IF actual_index < Len(m.warnings)
            THEN [m EXCEPT !.visited_warnings =
                               @ \cup {warning_key(m.warnings[actual_index + 1])}]
            ELSE m
    ELSE m

\* one turn of the loop of run_interactive
LoopTurn(m, event) == update(MarkVisited(m), event)

Seen(m, event) ==
    [event |-> event, mode |-> m.mode, style |-> get_current_style(m),
     decided |-> DOMAIN m.decisions # {}, asked |-> m.quit_confirmation_needed]

\* the trail keeps the last input and the one before it
Remember(t, entry) ==
    IF t = <<>> THEN <<entry>> ELSE <<t[Len(t)], entry>>

(***************************************************************************)
(* NolintApp::run (src/application/nolint_app.cpp): batch mode, and what   *)
(* run does with the decisions a review session returns.                   *)
(***************************************************************************)
\* the warnings of a report: two rules at one place of a.cpp, one more in
\* a.cpp, and one in b.cpp with a function size hint
BatchSampleWarnings ==
    << UIWarning("a.cpp", 1, 1, "r1", Some(2)),
       UIWarning("a.cpp", 1, 1, "r2", NullOpt),
       UIWarning("a.cpp", 2, 1, "r2", NullOpt),
       UIWarning("b.cpp", 1, 1, "r1", Some(1)) >>

BatchWarningLists ==
    UNION { { SubSeq(BatchSampleWarnings, from, from + n - 1) :
                n \in 1..Min(MaxWarnings, Len(BatchSampleWarnings) - from + 1) } :
            from \in 1..Len(BatchSampleWarnings) }

Config(dry_run, default_style) == [dry_run |-> dry_run, default_style |-> default_style]

\* the decisions after the first n warnings of the loop of run_batch_mode
RECURSIVE BatchAfter(_, _, _)
BatchAfter(n, warnings, config) ==
    IF n = 0 THEN EmptyDecisions
    ELSE LET decisions == BatchAfter(n - 1, warnings, config)
             warning == warnings[n]
             key == warning_key(warning)
         IN IF is_style_available(config.default_style, warning)
            THEN SetDecision(decisions, key, config.default_style)
            ELSE IF is_style_available("NOLINT_SPECIFIC", warning)
            THEN SetDecision(decisions, key, "NOLINT_SPECIFIC")
            ELSE decisions

\* the decisions, and the two numbers of "Processed n warnings, created m suppressions."
run_batch_mode(warnings, config) ==
    LET decisions == BatchAfter(Len(warnings), warnings, config)
    IN [decisions |-> decisions,
        processed |-> Len(warnings),
        created |-> Cardinality(DOMAIN decisions)]

\* apply_decisions_to_files: the source files written; a key is looked up
\* among the warnings and its file is written when its style is not NONE
files_to_modify(decisions, warnings) ==
    { warnings[k].file_path :
        k \in { i \in 1..Len(warnings) :
                  /\ warning_key(warnings[i]) \in DOMAIN decisions
                  /\ decisions[warning_key(warnings[i])] # "NONE" } }

\* the decision maps a review session over the warnings can return
DecisionsOver(warnings) ==
    UNION { [keys -> Styles] :
              keys \in SUBSET { warning_key(warnings[k]) : k \in 1..Len(warnings) } }

\* an application that writes the files whether or not the run is a dry run
apply_after_run_always(config, decisions, warnings) ==
    IF DOMAIN decisions # {}
    THEN files_to_modify(decisions, warnings)
    ELSE {}

\* the end of run: the files written for the decisions of the session or batch
apply_after_run(config, decisions, warnings) ==
    IF ~config.dry_run /\ DOMAIN decisions # {}
    THEN files_to_modify(decisions, warnings)
    ELSE {}

(***************************************************************************)
(* The search filter (src/core/functional_core.cpp) and the filter of the   *)
(* FTXUI front end (src/ui_model.cpp, called from src/main.cpp)             *)
(***************************************************************************)
TAB == "\t"
FF == "\f"
VT == "VT"

\* std::isspace, which operator>> skips, and the characters trim removes
isspace(c) == c \in {SP, TAB, "\n", "\r", FF, VT}
TrimChars == {SP, TAB, "\r", "\n"}

LowerCase == ("A" :> "a") @@ ("B" :> "b") @@ ("C" :> "c") @@ ("R" :> "r")

tolower(c) == IF c \in DOMAIN LowerCase THEN LowerCase[c] ELSE c

to_lowercase(text) == [k \in 1..Len(text) |-> tolower(text[k])]

trim(text) ==
    LET kept == { k \in 1..Len(text) : text[k] \notin TrimChars }
    IN IF kept = {} THEN <<>>
       ELSE LET start == CHOOSE k \in kept : \A j \in kept : k <= j
                end == CHOOSE k \in kept : \A j \in kept : j <= k
            IN SubSeq(text, start, end)

\* the characters operator>> reads into one token: up to the next space
RECURSIVE TokenLength(_)
TokenLength(text) ==
    IF text = <<>> \/ isspace(Head(text)) THEN 0 ELSE 1 + TokenLength(Tail(text))

RECURSIVE split_by_whitespace(_)
split_by_whitespace(text) ==
    IF text = <<>> THEN <<>>
    ELSE IF isspace(Head(text)) THEN split_by_whitespace(Tail(text))
    ELSE LET n == TokenLength(text)
         IN <<SubSeq(text, 1, n)>> \o split_by_whitespace(SubSeq(text, n + 1, Len(text)))

\* haystack.find(needle) != npos
Finds(haystack, needle) ==
    \E k \in 0..(Len(haystack) - Len(needle)) :
        SubSeq(haystack, k + 1, k + Len(needle)) = needle

Digits == <<"0", "1", "2", "3", "4", "5", "6", "7", "8", "9">>

RECURSIVE to_string(_)
to_string(n) ==
    IF n < 10 THEN <<Digits[n + 1]>>
    ELSE to_string(n \div 10) \o <<Digits[(n % 10) + 1]>>

FilterWarning(path, line, rule, message) ==
    [file_path |-> path, line_number |-> line, warning_type |-> rule, message |-> message]

\* clang-tidy reports for two files; paths, rule ids and messages are mixed case
SampleReports ==
    << FilterWarning(<<"a", "B">>, 1, <<"r">>, <<"C", "a">>),
       FilterWarning(<<"a">>, 12, <<"R", "2">>, <<>>),
       FilterWarning(<<"c">>, 2, <<"r">>, <<"b", SP, "a">>) >>

ReportLists ==
    UNION { { SubSeq(SampleReports, from, from + n - 1) :
                n \in 0..Min(MaxWarnings, Len(SampleReports) - from + 1) } :
            from \in 1..Len(SampleReports) }

QueryChars == {"a", "B", "2", SP, FF}

RECURSIVE Texts_of_length(_)
Texts_of_length(n) ==
    IF n = 0 THEN {<<>>}
    ELSE { Append(t, c) : t \in Texts_of_length(n - 1), c \in QueryChars }

Queries == UNION { Texts_of_length(n) : n \in 0..MaxQuery }

term_matches(warning, term) ==
    \/ Finds(to_lowercase(warning.file_path), term)
    \/ Finds(to_lowercase(warning.warning_type), term)
    \/ Finds(to_lowercase(warning.message), term)
    \/ Finds(to_string(warning.line_number), term)

all_terms_match(warning, terms) ==
    \A k \in 1..Len(terms) : term_matches(warning, terms[k])

RECURSIVE FilterFrom(_, _, _)
FilterFrom(warnings, terms, i) ==
    IF ~(i < Len(warnings)) THEN <<>>
    ELSE (IF all_terms_match(warnings[i + 1], terms) THEN <<i>> ELSE <<>>)
            \o FilterFrom(warnings, terms, i + 1)

all_indices(warnings) == [k \in 1..Len(warnings) |-> k - 1]

\* a filter that lists the newest match first
filter_warnings_newest_first(warnings, filter_terms) ==
    IF filter_terms = <<>> THEN all_indices(warnings)
    ELSE LET hits == FilterFrom(warnings, split_by_whitespace(to_lowercase(trim(filter_terms))), 0)
         IN [k \in 1..Len(hits) |-> hits[Len(hits) + 1 - k]]

filter_warnings(warnings, filter_terms) ==
    IF filter_terms = <<>> THEN all_indices(warnings)
    ELSE FilterFrom(warnings, split_by_whitespace(to_lowercase(trim(filter_terms))), 0)

\* src/ui_model.cpp: the whole filter text is looked for in "path type message"
RECURSIVE MainFilterFrom(_, _, _)
MainFilterFrom(warnings, lower_filter, i) ==
    IF ~(i < Len(warnings)) THEN <<>>
    ELSE LET warning == warnings[i + 1]
             searchable_text ==
                 to_lowercase(warning.file_path \o <<SP>> \o warning.warning_type
                                 \o <<SP>> \o warning.message)
         IN (IF Finds(searchable_text, lower_filter) THEN <<i>> ELSE <<>>)
               \o MainFilterFrom(warnings, lower_filter, i + 1)

main_filter_warnings(warnings, filter) ==
    IF filter = <<>> THEN all_indices(warnings)
    ELSE MainFilterFrom(warnings, to_lowercase(filter), 0)

(***************************************************************************)
(* The full-screen front end: UIModel of include/ui_model.hpp, update and  *)
(* calculate_warning_statistics of src/ui_model.cpp, the event handler and *)
(* the code after the loop of src/main.cpp.                                *)
(***************************************************************************)
MainWarning(path, line, column, rule, message, fl) ==
    [file_path |-> path, line_number |-> line, column |-> column,
     warning_type |-> rule, message |-> message, function_lines |-> fl]

MainSampleWarnings ==
    << MainWarning(<<"a", "B">>, 1, 1, <<"r">>, <<"C", "a">>, Some(2)),
       MainWarning(<<"a">>, 12, 1, <<"R", "2">>, <<>>, NullOpt),
       MainWarning(<<"c">>, 2, 1, <<"r">>, <<"b", SP, "a">>, NullOpt) >>

MainWarningLists ==
    UNION { { SubSeq(MainSampleWarnings, from, from + n - 1) :
                n \in 0..Min(MaxWarnings, Len(MainSampleWarnings) - from + 1) } :
            from \in 1..Len(MainSampleWarnings) }

\* filter texts the user types: two that match some warnings, one that matches none
MainFilters == { <<"c">>, <<"R", "2">>, <<"z">> }

\* enum class NolintStyle { NONE, NOLINT, NOLINTNEXTLINE, NOLINT_BLOCK }
MainStyles == <<"NONE", "NOLINT", "NOLINTNEXTLINE", "NOLINT_BLOCK">>

style_value(style) == (CHOOSE k \in 1..Len(MainStyles) : MainStyles[k] = style) - 1

MainEvents ==
    {"QUIT", "ARROW_UP", "ARROW_DOWN", "ARROW_LEFT", "ARROW_RIGHT", "SEARCH",
     "SHOW_STATISTICS", "SAVE_EXIT", "ENTER", "ESCAPE"}

MainUIModel(warnings, dry_run) ==
    [warnings |-> warnings,
     filtered_warning_indices |-> main_filter_warnings(warnings, <<>>),
     current_index |-> 0,
     decisions |-> EmptyDecisions,
     modified_files |-> {},
     should_exit |-> FALSE,
     should_save |-> TRUE,
     show_statistics |-> FALSE,
     dry_run |-> dry_run,
     in_search_mode |-> FALSE,
     search_filter |-> <<>>,
     statistics_selected_index |-> 0,
     statistics_types |-> <<>>]

total_warnings(m) == Len(m.filtered_warning_indices)

get_decision(m, original_warning_index) ==
    IF original_warning_index \in DOMAIN m.decisions
    THEN m.decisions[original_warning_index]
    ELSE "NONE"

\* current_index is a position of filtered_warning_indices
InBounds(m) == m.current_index < total_warnings(m)

\* what current_warning_original_index() can return: the element when the
\* position exists; otherwise the read is outside the vector and any index
\* of a warning may come back
current_warning_original_index(m) ==
    IF InBounds(m) THEN { m.filtered_warning_indices[m.current_index + 1] }
    ELSE 0..(Len(m.warnings) - 1)

\* the per-type records of a warning list, and the orders std::sort can leave
\* them in when it compares total_count only
TypesOf(warnings) == { warnings[k].warning_type : k \in 1..Len(warnings) }

MainTypeStats(warnings, m, type) ==
    LET of_type == { i \in 0..(Len(warnings) - 1) : warnings[i + 1].warning_type = type }
        with(style) == Cardinality({ i \in of_type : get_decision(m, i) = style })
    IN [type |-> type,
        total_count |-> Cardinality(of_type),
        nolint_count |-> with("NOLINT"),
        nolintnextline_count |-> with("NOLINTNEXTLINE"),
        nolint_block_count |-> with("NOLINT_BLOCK"),
        unsuppressed_count |-> with("NONE")]

calculate_warning_statistics(m) ==
    LET types == TypesOf(m.warnings)
        n == Cardinality(types)
    IN { [k \in 1..n |-> MainTypeStats(m.warnings, m, order[k])] :
           order \in { o \in [1..n -> types] :
                         /\ \A i, j \in 1..n : i # j => o[i] # o[j]
                         /\ \A i, j \in 1..n :
                               i < j => MainTypeStats(m.warnings, m, o[i]).total_count
                                          >= MainTypeStats(m.warnings, m, o[j]).total_count } }

\* the style after the do-while loop of ARROW_UP (step 1) and ARROW_DOWN (step 3)
RECURSIVE main_cycle(_, _, _)
main_cycle(current, step, warning) ==
    LET next == (current + step) % 4
    IN IF next = style_value("NOLINT_BLOCK") /\ ~HasValue(warning.function_lines)
       THEN main_cycle(next, step, warning)
       ELSE next

\* ARROW_UP and ARROW_DOWN outside the statistics page, when the reads of the
\* current warning give the index original
main_cycle_current(m, step, original) ==
    LET warning == m.warnings[original + 1]
        style == MainStyles[main_cycle(style_value(get_decision(m, original)), step, warning) + 1]
        decisions == SetDecision(m.decisions, original, style)
    IN [m EXCEPT !.decisions = decisions,
                 !.modified_files =
                     IF style # "NONE" THEN @ \cup {warning.file_path} ELSE @]

\* a navigation that takes the length of the list for its last index
main_navigate_past_end(m, event) ==
    IF event = "ARROW_LEFT"
    THEN IF m.current_index > 0
         THEN [m EXCEPT !.current_index = @ - 1]
         ELSE m
    ELSE IF m.current_index < total_warnings(m)
         THEN [m EXCEPT !.current_index = UAdd(@, 1)]
         ELSE m

\* the cases ARROW_LEFT and ARROW_RIGHT of update of src/ui_model.cpp
main_navigate(m, event) ==
    IF event = "ARROW_LEFT"
    THEN IF m.current_index > 0
         THEN [m EXCEPT !.current_index = @ - 1]
         ELSE m
    ELSE IF m.current_index < USub(total_warnings(m), 1)
         THEN [m EXCEPT !.current_index = UAdd(@, 1)]
         ELSE m

\* update of src/ui_model.cpp: the models it can return
main_update(m, event) ==
    IF m.warnings = <<>>
    THEN IF event = "QUIT"
         THEN { [m EXCEPT !.should_save = FALSE, !.should_exit = TRUE] }
         ELSE { m }
    ELSE CASE event = "QUIT" ->
                { [m EXCEPT !.should_save = FALSE, !.should_exit = TRUE] }
           [] event \in {"ARROW_LEFT", "ARROW_RIGHT"} ->
                { main_navigate(m, event) }
           [] event = "ARROW_UP" ->
                IF m.show_statistics
                THEN { IF m.statistics_selected_index > 0
                       THEN [m EXCEPT !.statistics_selected_index = @ - 1]
                       ELSE m }
                ELSE { main_cycle_current(m, 1, original) :
                         original \in current_warning_original_index(m) }
           [] event = "ARROW_DOWN" ->
                IF m.show_statistics
                THEN { IF m.statistics_selected_index < USub(Len(m.statistics_types), 1)
                       THEN [m EXCEPT !.statistics_selected_index = UAdd(@, 1)]
                       ELSE m }
                ELSE { main_cycle_current(m, 3, original) :
                         original \in current_warning_original_index(m) }
           [] event = "SHOW_STATISTICS" ->
                IF ~m.show_statistics
                THEN { [m EXCEPT !.show_statistics = TRUE,
                                 !.statistics_types = [k \in DOMAIN stats |-> stats[k].type],
                                 !.statistics_selected_index = 0] :
                         stats \in calculate_warning_statistics(m) }
                ELSE { [m EXCEPT !.show_statistics = FALSE] }
           [] event = "SAVE_EXIT" ->
                { [m EXCEPT !.should_save = TRUE, !.should_exit = TRUE] }
           [] event = "SEARCH" ->
                { [m EXCEPT !.in_search_mode = ~@] }
           [] event = "ENTER" ->
                { IF m.show_statistics /\ m.statistics_types # <<>>
                  THEN LET selected_type == m.statistics_types[m.statistics_selected_index + 1]
                       IN [m EXCEPT !.search_filter = selected_type,
                                    !.filtered_warning_indices =
                                        main_filter_warnings(m.warnings, selected_type),
                                    !.current_index = 0,
                                    !.show_statistics = FALSE]
                  ELSE m }
           [] event = "ESCAPE" ->
                { IF m.show_statistics THEN [m EXCEPT !.show_statistics = FALSE] ELSE m }
           [] OTHER -> { m }

\* FileModifier::apply_decisions: the files saved
files_saved(warnings, decisions, dry_run) ==
    IF dry_run THEN {}
    ELSE { warnings[i + 1].file_path :
             i \in { j \in 0..(Len(warnings) - 1) :
                       j \in DOMAIN decisions /\ decisions[j] # "NONE" } }

\* the program around the model: which component has the keyboard, whether
\* the loop still runs, the files saved after the loop, and the last event
MainState(m) ==
    [model |-> m, ui_selector |-> "MAIN_UI", phase |-> "LOOP", fault |-> FALSE,
     written |-> {}, event |-> "NONE"]

\* the code after screen.Loop
AfterLoop(s) ==
    IF s.model.should_exit
    THEN [s EXCEPT !.phase = "EXITED",
                   !.written =
                       IF DOMAIN s.model.decisions # {} /\ s.model.should_save
                       THEN files_saved(s.model.warnings, s.model.decisions, s.model.dry_run)
                       ELSE {}]
    ELSE s

\* the frame drawn after an event: the main component reads the current style
\* before it looks at anything else, outside the vector when the position does
\* not exist; that read ends the program or goes unnoticed
Frame(s) ==
    IF /\ s.phase = "LOOP"
       /\ s.ui_selector = "MAIN_UI"
       /\ s.model.warnings # <<>>
       /\ ~InBounds(s.model)
    THEN { [s EXCEPT !.fault = TRUE], [s EXCEPT !.fault = TRUE, !.phase = "CRASHED"] }
    ELSE { s }

(***************************************************************************)
(* The text transformation of the terminal front end                       *)
(* (include/functional_core.hpp, src/functional_core.cpp): a Modification  *)
(* is made from a warning and the lines of its file and then applied to    *)
(* the lines.  Line numbers are int and 1-based.                           *)
(***************************************************************************)
\* a signature, its body, a line of whitespace only and the closing brace
TextSource == << <<"f", "(", ")">>, <<SP, "x">>, <<SP>>, <<TAB, "}">> >>

TextLineLists ==
    UNION { { SubSeq(TextSource, from, from + n - 1) :
                n \in 0..Min(MaxLines, Len(TextSource) - from + 1) } :
            from \in 1..Len(TextSource) }

Max(a, b) == IF a > b THEN a ELSE b

\* extract_indentation of include/functional_core.hpp
functional_core_extract_indentation(line) ==
    LET first_non_space == find_first_not_of_ws(line, 0)
    IN IF first_non_space = Len(line) THEN line
       ELSE SubSeq(line, 1, first_non_space)

starts_with(line, prefix) ==
    Len(line) >= Len(prefix) /\ SubSeq(line, 1, Len(prefix)) = prefix

is_function_signature(line) ==
    LET has_parens == Finds(line, <<"(">>) /\ Finds(line, <<")">>)
        not_comment == ~starts_with(line, <<"/", "/">>) /\ ~starts_with(line, <<"/", "*">>)
        not_if_while == /\ ~Finds(line, <<"i", "f", SP>>)
                        /\ ~Finds(line, <<"w", "h", "i", "l", "e", SP>>)
                        /\ ~Finds(line, <<"f", "o", "r", SP>>)
    IN has_parens /\ not_comment /\ not_if_while

\* find_function_boundaries of src/functional_core.cpp for a warning with a
\* function_lines hint (create_modification calls it for no other warning)
functional_core_find_function_boundaries(file_lines, warning) ==
    LET warning_line == warning.line_number - 1
        size == Len(file_lines)
    IN IF warning_line < 0 \/ warning_line >= size THEN NullOpt
       ELSE LET looked_at == { i \in 0..warning_line : warning_line - i <= 21 }
                signatures == { i \in looked_at : is_function_signature(file_lines[i + 1]) }
                start_line ==
                    IF signatures = {} THEN warning_line
                    ELSE CHOOSE i \in signatures : \A j \in signatures : j <= i
                safe_function_lines == Min(Value(warning.function_lines), 1000)
                end_line == Min(warning_line + safe_function_lines - 1, size - 1)
            IN Some(<<start_line + 1, end_line + 1>>)

create_modification(warning, style, file_lines) ==
    IF style = "NONE"
    THEN [target_line |-> warning.line_number, style |-> "NONE",
          warning_type |-> warning.warning_type, indentation |-> <<>>,
          block_start_line |-> NullOpt, block_end_line |-> NullOpt]
    ELSE LET line_index == warning.line_number - 1
             indentation ==
                 IF line_index >= 0 /\ line_index < Len(file_lines)
                 THEN functional_core_extract_indentation(file_lines[line_index + 1])
                 ELSE <<>>
             mod == [target_line |-> warning.line_number, style |-> style,
                     warning_type |-> warning.warning_type, indentation |-> indentation,
                     block_start_line |-> NullOpt, block_end_line |-> NullOpt]
         IN IF style = "NOLINT_BLOCK" /\ HasValue(warning.function_lines)
            THEN LET bounds == functional_core_find_function_boundaries(file_lines, warning)
                 IN IF HasValue(bounds)
                    THEN [mod EXCEPT !.block_start_line = Some(Value(bounds)[1]),
                                     !.block_end_line = Some(Value(bounds)[2])]
                    ELSE [mod EXCEPT
                            !.block_start_line = Some(Max(1, warning.line_number - 5)),
                            !.block_end_line =
                                Some(Min(Len(file_lines), warning.line_number + 5))]
            ELSE mod

format_nolint_comment(style, warning_type, indentation) ==
    CASE style = "NOLINT_SPECIFIC" -> << InlineComment(warning_type) >>
      [] style = "NOLINTNEXTLINE" -> << NextLineComment(indentation, warning_type) >>
      [] style = "NOLINT_BLOCK" -> << BeginComment(indentation, warning_type),
                                      EndComment(indentation, warning_type) >>
      [] OTHER -> <<>>

\* result.insert(result.begin() + index, line)
InsertAt(lines, index, line) ==
    SubSeq(lines, 1, index) \o <<line>> \o SubSeq(lines, index + 1, Len(lines))

apply_modification_to_lines(original_lines, modification) ==
    LET comments == format_nolint_comment(modification.style, modification.warning_type,
                                          modification.indentation)
        size == Len(original_lines)
    IN CASE modification.style = "NOLINT_SPECIFIC" ->
              LET line_index == modification.target_line - 1
              IN IF line_index >= 0 /\ line_index < size
                 THEN [lines |-> [original_lines EXCEPT
                                     ![line_index + 1] = @ \o <<SP, SP>> \o comments[1]],
                       lines_added |-> 0]
                 ELSE [lines |-> original_lines, lines_added |-> 0]
         [] modification.style = "NOLINTNEXTLINE" ->
              LET insert_index == modification.target_line - 1
              IN IF insert_index >= 0 /\ insert_index <= size
                 THEN [lines |-> InsertAt(original_lines, insert_index, comments[1]),
                       lines_added |-> 1]
                 ELSE [lines |-> original_lines, lines_added |-> 0]
         [] modification.style = "NOLINT_BLOCK" ->
              IF HasValue(modification.block_start_line)
                    /\ HasValue(modification.block_end_line)
              THEN LET start_index == Value(modification.block_start_line) - 1
                       end_index == Value(modification.block_end_line) + 1
                   IN IF start_index >= 0 /\ start_index <= size
                      THEN LET begun == InsertAt(original_lines, start_index, comments[1])
                           IN IF end_index >= 0 /\ end_index <= Len(begun)
                              THEN [lines |-> InsertAt(begun, end_index, comments[2]),
                                    lines_added |-> 2]
                              ELSE [lines |-> begun, lines_added |-> 1]
                      ELSE [lines |-> original_lines, lines_added |-> 0]
              ELSE [lines |-> original_lines, lines_added |-> 0]
         [] OTHER -> [lines |-> original_lines, lines_added |-> 0]

(***************************************************************************)
(* NolintProcessor::process_warnings (src/nolint_processor.cpp) over the   *)
(* FileManager (src/file_manager.cpp).  The text of a file is kept as the  *)
(* styles of the modifications applied to it: <<>> is the text on disk.    *)
(***************************************************************************)
\* the files of the warnings of a report, in the order of the report
ProcessorSampleWarnings == <<"a.cpp", "a.cpp", "b.cpp", "c.cpp">>

ProcessorWarningLists ==
    UNION { { SubSeq(ProcessorSampleWarnings, from, from + n - 1) :
                n \in 1..Min(MaxWarnings, Len(ProcessorSampleWarnings) - from + 1) } :
            from \in 1..Len(ProcessorSampleWarnings) }

\* enum class NolintStyle of include/nolint/types.hpp
ProcessorStyles == {"NOLINT", "NOLINT_SPECIFIC", "NOLINTNEXTLINE", "NOLINT_BLOCK"}

\* FileData: lines, original_lines and modified
FileData == [lines |-> <<>>, original_lines |-> <<>>, modified |-> FALSE]

\* load_file: the file is read once
load_file(files, path) ==
    IF path \in DOMAIN files THEN files
    ELSE [p \in DOMAIN files \cup {path} |-> IF p = path THEN FileData ELSE files[p]]

\* FileManager::apply_modification; in_range is the outcome of the check of
\* the line number against the lines of the file
apply_modification(fm, path, style, in_range) ==
    LET files == load_file(fm.files, path)
    IN IF ~in_range \/ style = "NOLINT"
       THEN [fm EXCEPT !.files = files]
       ELSE [fm EXCEPT !.files = [files EXCEPT ![path].lines = Append(@, style),
                                               ![path].modified = TRUE],
                       !.total_modifications = @ + 1]

\* FileManager::write_file: the disk gets the lines of a modified file
write_file(fm, path, by) ==
    IF path \notin DOMAIN fm.files \/ ~fm.files[path].modified THEN fm
    ELSE [fm EXCEPT !.files[path].modified = FALSE,
                    !.writes = @ \cup {[path |-> path, lines |-> fm.files[path].lines,
                                        by |-> by]}]

\* FileManager::write_all, called by FileTransaction::commit
write_all(fm) ==
    [fm EXCEPT
       !.files = [p \in DOMAIN fm.files |-> [fm.files[p] EXCEPT !.modified = FALSE]],
       !.writes = @ \cup { [path |-> p, lines |-> fm.files[p].lines, by |-> "COMMIT"] :
                             p \in { q \in DOMAIN fm.files : fm.files[q].modified } }]

rollback_all(fm) ==
    [fm EXCEPT
       !.files = [p \in DOMAIN fm.files |->
                     [fm.files[p] EXCEPT !.lines = fm.files[p].original_lines,
                                         !.modified = FALSE]],
       !.total_modifications = 0]

get_modified_file_count(fm) ==
    Cardinality({ p \in DOMAIN fm.files : fm.files[p].modified })

FileManager == [files |-> [p \in {} |-> FileData], total_modifications |-> 0, writes |-> {}]

\* the end of process_warnings: the summary, the commit when a file is
\* modified, and the destructor of the transaction
AfterWarnings(fm) ==
    IF get_modified_file_count(fm) > 0
    THEN write_all(fm)
    ELSE rollback_all(fm)

\* handle_user_action: the file manager after the action, and whether the loop goes on
handle_user_action(fm, action, path, current_style, in_range) ==
    CASE action = "ACCEPT" ->
           [fm |-> apply_modification(fm, path, current_style, in_range), continue |-> TRUE]
      [] action = "QUIT" -> [fm |-> fm, continue |-> FALSE]
      [] action = "EXIT" -> [fm |-> fm, continue |-> FALSE]
      [] action = "SAVE" -> [fm |-> write_file(fm, path, "SAVE"), continue |-> TRUE]
      [] OTHER -> [fm |-> fm, continue |-> TRUE]

\* one turn of the loop of process_warnings, with the end of the function
\* when the loop ends
process_single_warning(p, action, current_style, in_range) ==
    LET path == p.warnings[p.i + 1]
        shown_lines == [p.fm EXCEPT !.files = load_file(p.fm.files, path)]
        handled == handle_user_action(shown_lines, action, path, current_style, in_range)
        done == ~handled.continue \/ p.i + 1 = Len(p.warnings)
    IN [p EXCEPT !.i = IF handled.continue THEN @ + 1 ELSE @,
                 !.fm = IF done THEN AfterWarnings(handled.fm) ELSE handled.fm,
                 !.ended_by = IF ~handled.continue THEN action
                              ELSE IF done THEN "END" ELSE @]

(***************************************************************************)
(* Session files (src/ui/ui_model_persistence.cpp).  A line of the file is *)
(* a sequence of pieces of text; the delimiter and the style names are      *)
(* pieces of their own.                                                     *)
(***************************************************************************)
PIPE == "|"

style_to_string(style) ==
    CASE style = "NONE" -> <<"NONE">>
      [] style = "NOLINT_SPECIFIC" -> <<"NOLINT_SPECIFIC">>
      [] style = "NOLINTNEXTLINE" -> <<"NOLINTNEXTLINE">>
      [] style = "NOLINT_BLOCK" -> <<"NOLINT_BLOCK">>
      [] OTHER -> <<"NONE">>

\* a decoder that takes an unknown style name for an inline suppression
string_to_style_guessing(str) ==
    IF str = <<"NOLINTNEXTLINE">> THEN "NOLINTNEXTLINE"
    ELSE IF str = <<"NOLINT_BLOCK">> THEN "NOLINT_BLOCK"
    ELSE IF str = <<"NONE">> THEN "NONE"
    ELSE "NOLINT_SPECIFIC"

string_to_style(str) ==
    IF str = <<"NOLINT_SPECIFIC">> THEN "NOLINT_SPECIFIC"
    ELSE IF str = <<"NOLINTNEXTLINE">> THEN "NOLINTNEXTLINE"
    ELSE IF str = <<"NOLINT_BLOCK">> THEN "NOLINT_BLOCK"
    ELSE "NONE"

\* the keys of warnings in a.cpp, b.cpp and in a file named "a|b.cpp"
SessionKeys == { <<"a.cpp:1:1">>, <<"b.cpp:2:1">>, <<"a", PIPE, "b.cpp:1:1">> }

DecisionMaps ==
    UNION { [keys -> Styles] :
              keys \in { ks \in SUBSET SessionKeys : Cardinality(ks) <= MaxDecisions } }

\* the orders in which the loop over an unordered_map can visit its entries
IterationOrders(decisions) ==
    { order \in [1..Cardinality(DOMAIN decisions) -> DOMAIN decisions] :
         \A i, j \in DOMAIN order : i # j => order[i] # order[j] }

\* the lines save_decisions writes when the map is visited in the given order
RECURSIVE WrittenFrom(_, _, _)
WrittenFrom(decisions, order, i) ==
    IF i > Len(order) THEN <<>>
    ELSE LET key == order[i]
             style == decisions[key]
         IN (IF style # "NONE"
             THEN << key \o <<PIPE>> \o style_to_string(style) >>
             ELSE <<>>)
               \o WrittenFrom(decisions, order, i + 1)

save_decisions(decisions, order) == WrittenFrom(decisions, order, 1)

\* line.find('|', from): the 0-based position of the first delimiter at or after
\* from, Len(line) for npos
find_pipe(line, from) ==
    LET at == { k \in from..(Len(line) - 1) : line[k + 1] = PIPE }
    IN IF at = {} THEN Len(line) ELSE CHOOSE k \in at : \A j \in at : k <= j

\* the decisions after the first n lines of the file
RECURSIVE LoadedAfter(_, _)
LoadedAfter(n, lines) ==
    IF n = 0 THEN EmptyDecisions
    ELSE LET decisions == LoadedAfter(n - 1, lines)
             line == lines[n]
             pipe_pos == find_pipe(line, 0)
         IN IF line = <<>> THEN decisions
            ELSE IF pipe_pos = Len(line) THEN decisions
            ELSE IF find_pipe(line, pipe_pos + 1) # Len(line) THEN decisions
            ELSE LET key == SubSeq(line, 1, pipe_pos)
                     style_str == SubSeq(line, pipe_pos + 2, Len(line))
                 IN SetDecision(decisions, key, string_to_style(style_str))

load_decisions(lines) == LoadedAfter(Len(lines), lines)

\* lines found in session files: written by the program, cut off, edited by
\* hand, or saved with CR LF line ends
SampleSessionLines ==
    { <<>>,
      <<"a.cpp:1:1">>,
      <<"a.cpp:1:1", PIPE, "NOLINT_SPECIFIC">>,
      <<"a.cpp:1:1", PIPE, "NONE">>,
      <<"a.cpp:1:1", PIPE, "UNKNOWN_STYLE">>,
      <<"b.cpp:2:1", PIPE, "NOLINT_BLOCK">>,
      <<"b.cpp:2:1", PIPE, "NOLINTNEXTLINE", "\r">>,
      <<"a", PIPE, "b.cpp:1:1", PIPE, "NOLINTNEXTLINE">>,
      <<PIPE, "NOLINT_SPECIFIC">> }

RECURSIVE Files_of_length(_)
Files_of_length(n) ==
    IF n = 0 THEN {<<>>}
    ELSE { Append(f, line) : f \in Files_of_length(n - 1), line \in SampleSessionLines }

SessionFiles == UNION { Files_of_length(n) : n \in 0..MaxSessionLines }

Call(warning, style) == [warning |-> warning, style |-> style]

Init ==
    /\ orig \in LineLists
    /\ file = create_annotated_file(orig)
    /\ before = file
    /\ last = NullOpt
    /\ resolved = NullOpt
    /\ applied = 0
    /\ model = UIModel(SampleWarnings)
    /\ trail = <<>>
    /\ search = [warnings |-> <<>>, filter_terms |-> <<>>]
    /\ found = <<>>
    /\ session = <<>>
    /\ saved = NullOpt
    /\ loaded = NullOpt
    /\ main = NullOpt
    /\ run = NullOpt
    /\ processor = NullOpt
    /\ shown = NullOpt
    /\ transformed = NullOpt

ApplyDecision ==
    /\ applied < MaxOps
    /\ \E warning \in Warnings, style \in Styles :
          /\ file' = apply_decision(file, warning, style)
          /\ resolved' = ResolvedBy(file, warning, style)
          /\ last' = Some(Call(warning, style))
    /\ before' = file
    /\ applied' = applied + 1
    /\ UNCHANGED <<orig, ui_vars, filter_vars, session_vars, app_vars>>

LegacyApplyDecision ==
    /\ applied < MaxOps
    /\ \E warning \in Warnings, style \in Styles :
          /\ file' = legacy_apply_decision(file, warning, style)
          /\ resolved' = LegacyResolvedBy(file, warning, style)
          /\ last' = Some(Call(warning, style))
    /\ before' = file
    /\ applied' = applied + 1
    /\ UNCHANGED <<orig, ui_vars, filter_vars, session_vars, app_vars>>

Next == ApplyDecision

\* the engine of src/core, driven by any sequence of decisions
Spec == Init /\ [][Next]_vars

NextLegacy == LegacyApplyDecision

\* the earlier engine of src/annotated_file.cpp, driven the same way
SpecLegacy == Init /\ [][NextLegacy]_vars

\* a session file left by an earlier run, with one saved decision
ExistingSessionFile == << <<"b.cpp:2:1", PIPE, "NOLINT_BLOCK">> >>

InitUI ==
    /\ orig = <<>>
    /\ file = create_annotated_file(orig)
    /\ before = file
    /\ last = NullOpt
    /\ resolved = NullOpt
    /\ applied = 0
    /\ model = UIModel(SampleWarnings)
    /\ trail = <<>>
    /\ search = [warnings |-> <<>>, filter_terms |-> <<>>]
    /\ found = <<>>
    /\ session = ExistingSessionFile
    /\ saved = NullOpt
    /\ loaded = NullOpt
    /\ main = NullOpt
    /\ run = [phase |-> "SESSION"]
    /\ processor = NullOpt
    /\ shown = NullOpt
    /\ transformed = NullOpt

Input(event) ==
    /\ model.mode # "EXIT"
    /\ model' = LoopTurn(model, event)
    /\ trail' = Remember(trail, Seen(model, event))
    /\ UNCHANGED <<engine_vars, filter_vars, session_vars, app_vars>>

\* run_interactive has returned: run saves the decisions of the model to the
\* session file when config.save_session_file names one, and applies them or
\* reports a dry run; config.dry_run is read here for the first time
FinishInteractive ==
    /\ model.mode = "EXIT"
    /\ run.phase = "SESSION"
    /\ \E dry_run \in BOOLEAN, save_session \in BOOLEAN :
          LET config == Config(dry_run, "NOLINT_SPECIFIC")
          IN /\ run' = [config |-> config, warnings |-> model.warnings, phase |-> "DONE",
                        batch |-> NullOpt, decisions |-> model.decisions,
                        written |-> apply_after_run(config, model.decisions,
                                                    model.warnings)]
             /\ IF save_session
                THEN /\ \E order \in IterationOrders(model.decisions) :
                           session' = save_decisions(model.decisions, order)
                     /\ saved' = Some(model.decisions)
                ELSE UNCHANGED <<session, saved>>
    /\ UNCHANGED <<engine_vars, ui_vars, filter_vars, loaded,
                   main, processor, shown, transformed>>

ArrowLeft == Input("ARROW_LEFT")
ArrowRight == Input("ARROW_RIGHT")
ArrowUp == Input("ARROW_UP")
ArrowDown == Input("ARROW_DOWN")
SearchKey == Input("SEARCH")
ShowStatistics == Input("SHOW_STATISTICS")
Escape == Input("ESCAPE")
SaveExit == Input("SAVE_EXIT")
Quit == Input("QUIT")
OtherKey == \E event \in {"ENTER", "UNKNOWN"} : Input(event)

NextUI ==
    \/ ArrowLeft \/ ArrowRight \/ ArrowUp \/ ArrowDown
    \/ SearchKey \/ ShowStatistics \/ Escape \/ SaveExit \/ Quit \/ OtherKey
    \/ FinishInteractive

\* the review loop of src/application/nolint_app.cpp, driven by any input
SpecUI == InitUI /\ [][NextUI]_vars

\* the events a key of FTXUITerminal::run_reactive_session is mapped to
ReactiveEvents ==
    {"QUIT", "SAVE_EXIT", "ARROW_UP", "ARROW_DOWN", "ARROW_LEFT", "ARROW_RIGHT",
     "SEARCH", "SHOW_STATISTICS", "ESCAPE", "ENTER"}

\* the event handler of run_reactive_session: the model is replaced by the
\* result of the update function; the session ends when the mode is EXIT
ReactiveEvent ==
    /\ model.mode # "EXIT"
    /\ \E event \in ReactiveEvents :
          /\ model' = update(model, event)
          /\ trail' = Remember(trail, Seen(model, event))
    /\ UNCHANGED <<engine_vars, filter_vars, session_vars, app_vars>>

\* the session of src/ui/ftxui_terminal.cpp that NolintApp::run starts for
\* an FTXUI terminal
SpecReactive == InitUI /\ [][ReactiveEvent]_vars

InitFilter ==
    /\ orig = <<>>
    /\ file = create_annotated_file(orig)
    /\ before = file
    /\ last = NullOpt
    /\ resolved = NullOpt
    /\ applied = 0
    /\ model = UIModel(SampleWarnings)
    /\ trail = <<>>
    /\ \E warnings \in ReportLists :
          /\ search = [warnings |-> warnings, filter_terms |-> <<>>]
          /\ found = filter_warnings(warnings, <<>>)
    /\ session = <<>>
    /\ saved = NullOpt
    /\ loaded = NullOpt
    /\ main = NullOpt
    /\ run = NullOpt
    /\ processor = NullOpt
    /\ shown = NullOpt
    /\ transformed = NullOpt

\* the user enters a filter text
Search ==
    /\ \E filter_terms \in Queries :
          /\ search' = [search EXCEPT !.filter_terms = filter_terms]
          /\ found' = filter_warnings(search.warnings, filter_terms)
    /\ UNCHANGED <<engine_vars, ui_vars, session_vars, app_vars>>

MainSearch ==
    /\ \E filter_terms \in Queries :
          /\ search' = [search EXCEPT !.filter_terms = filter_terms]
          /\ found' = main_filter_warnings(search.warnings, filter_terms)
    /\ UNCHANGED <<engine_vars, ui_vars, session_vars, app_vars>>

NextFilter == Search

\* the filter of src/core, given any filter text
SpecFilter == InitFilter /\ [][NextFilter]_vars

NextMainFilter == MainSearch

\* the filter of src/ui_model.cpp, given any filter text
SpecMainFilter == InitFilter /\ [][NextMainFilter]_vars

InitSession ==
    /\ orig = <<>>
    /\ file = create_annotated_file(orig)
    /\ before = file
    /\ last = NullOpt
    /\ resolved = NullOpt
    /\ applied = 0
    /\ model = UIModel(SampleWarnings)
    /\ trail = <<>>
    /\ search = [warnings |-> <<>>, filter_terms |-> <<>>]
    /\ found = <<>>
    /\ session \in SessionFiles
    /\ saved = NullOpt
    /\ loaded = NullOpt
    /\ main = NullOpt
    /\ run = NullOpt
    /\ processor = NullOpt
    /\ shown = NullOpt
    /\ transformed = NullOpt

\* a run ends and writes its decisions to the session file
SaveSession ==
    /\ \E decisions \in DecisionMaps :
          /\ \E order \in IterationOrders(decisions) :
                session' = save_decisions(decisions, order)
          /\ saved' = Some(decisions)
    /\ loaded' = NullOpt
    /\ UNCHANGED <<engine_vars, ui_vars, filter_vars, app_vars>>

\* a run starts and reads the session file
LoadSession ==
    /\ loaded' = Some(load_decisions(session))
    /\ UNCHANGED <<engine_vars, ui_vars, filter_vars, session, saved, app_vars>>

NextSession == SaveSession \/ LoadSession

\* session files written and read back, starting from any file content
SpecSession == InitSession /\ [][NextSession]_vars

InitMain ==
    /\ orig = <<>>
    /\ file = create_annotated_file(orig)
    /\ before = file
    /\ last = NullOpt
    /\ resolved = NullOpt
    /\ applied = 0
    /\ model = UIModel(SampleWarnings)
    /\ trail = <<>>
    /\ search = [warnings |-> <<>>, filter_terms |-> <<>>]
    /\ found = <<>>
    /\ session = <<>>
    /\ saved = NullOpt
    /\ loaded = NullOpt
    /\ \E warnings \in MainWarningLists, dry_run \in BOOLEAN :
          main = MainState(MainUIModel(warnings, dry_run))
    /\ run = NullOpt
    /\ processor = NullOpt
    /\ shown = NullOpt
    /\ transformed = NullOpt

\* a key reaches the main component
MainInput(event) ==
    /\ main.phase = "LOOP"
    /\ main.ui_selector = "MAIN_UI"
    /\ event = "ARROW_RIGHT" => main.model.current_index < MaxIndex
    /\ \E new_model \in main_update(main.model, event) :
          LET fault == main.fault
                          \/ (/\ event \in {"ARROW_UP", "ARROW_DOWN"}
                              /\ main.model.warnings # <<>>
                              /\ ~main.model.show_statistics
                              /\ ~InBounds(main.model))
              switched == [main EXCEPT !.model = new_model,
                                       !.event = event,
                                       !.fault = fault,
                                       !.ui_selector =
                                           IF event = "SEARCH" THEN "SEARCH_UI" ELSE @]
          IN main' \in Frame(AfterLoop(switched))
    /\ UNCHANGED <<engine_vars, ui_vars, filter_vars, session_vars, run, processor, shown, transformed>>

MainKey == \E event \in MainEvents : MainInput(event)

\* Return in the search component: the typed text becomes the filter
SearchReturn ==
    /\ main.phase = "LOOP"
    /\ main.ui_selector = "SEARCH_UI"
    /\ \E search_input_text \in MainFilters \cup {<<>>} :
          LET filtered ==
                  [main EXCEPT !.model.search_filter = search_input_text,
                               !.model.filtered_warning_indices =
                                   main_filter_warnings(main.model.warnings, search_input_text),
                               !.model.current_index = 0,
                               !.ui_selector = "MAIN_UI",
                               !.event = "RETURN"]
          IN main' \in Frame(filtered)
    /\ UNCHANGED <<engine_vars, ui_vars, filter_vars, session_vars, run, processor, shown, transformed>>

\* Escape in the search component
SearchEscape ==
    /\ main.phase = "LOOP"
    /\ main.ui_selector = "SEARCH_UI"
    /\ main' \in Frame([main EXCEPT !.ui_selector = "MAIN_UI", !.event = "ESCAPE"])
    /\ UNCHANGED <<engine_vars, ui_vars, filter_vars, session_vars, run, processor, shown, transformed>>

NextMain == MainKey \/ SearchReturn \/ SearchEscape

\* the full-screen front end from its first frame to the end of main
SpecMain == InitMain /\ [][NextMain]_vars

InitStats ==
    /\ orig = <<>>
    /\ file = create_annotated_file(orig)
    /\ before = file
    /\ last = NullOpt
    /\ resolved = NullOpt
    /\ applied = 0
    /\ model = UIModel(SampleWarnings)
    /\ trail = <<>>
    /\ search = [warnings |-> <<>>, filter_terms |-> <<>>]
    /\ found = <<>>
    /\ session = <<>>
    /\ saved = NullOpt
    /\ loaded = NullOpt
    /\ main = NullOpt
    /\ run = NullOpt
    /\ processor = NullOpt
    /\ \E total \in 0..MaxCount, addressed \in 0..MaxCount :
          shown = [record |-> [WarningTypeStats("r1") EXCEPT !.total_count = total,
                                                            !.addressed_count = addressed],
                   percentage |-> NullOpt]
    /\ transformed = NullOpt

\* the statistics page shows the percentage of a record
ShowPercentage ==
    /\ shown.percentage = NullOpt
    /\ shown' = [shown EXCEPT !.percentage = Some(addressed_percentage(shown.record))]
    /\ UNCHANGED <<engine_vars, ui_vars, filter_vars, session_vars, main, run, processor,
                   transformed>>

NextStats == ShowPercentage

\* addressed_percentage applied to any record
SpecStats == InitStats /\ [][NextStats]_vars

InitText ==
    /\ orig = <<>>
    /\ file = create_annotated_file(orig)
    /\ before = file
    /\ last = NullOpt
    /\ resolved = NullOpt
    /\ applied = 0
    /\ model = UIModel(SampleWarnings)
    /\ trail = <<>>
    /\ search = [warnings |-> <<>>, filter_terms |-> <<>>]
    /\ found = <<>>
    /\ session = <<>>
    /\ saved = NullOpt
    /\ loaded = NullOpt
    /\ main = NullOpt
    /\ run = NullOpt
    /\ processor = NullOpt
    /\ shown = NullOpt
    /\ \E file_lines \in TextLineLists :
          transformed = [file_lines |-> file_lines, mod |-> NullOpt, lines |-> file_lines]

\* a decision of the terminal front end is turned into text
Transform ==
    /\ transformed.mod = NullOpt
    /\ \E warning \in Warnings, style \in Styles :
          LET mod == create_modification(warning, style, transformed.file_lines)
          IN transformed' =
                 [transformed EXCEPT
                    !.mod = Some(mod),
                    !.lines = apply_modification_to_lines(transformed.file_lines, mod).lines]
    /\ UNCHANGED <<engine_vars, ui_vars, filter_vars, session_vars,
                   main, run, processor, shown>>

NextText == Transform

\* one modification made from any warning and applied to any file
SpecText == InitText /\ [][NextText]_vars

InitRun ==
    /\ orig = <<>>
    /\ file = create_annotated_file(orig)
    /\ before = file
    /\ last = NullOpt
    /\ resolved = NullOpt
    /\ applied = 0
    /\ model = UIModel(SampleWarnings)
    /\ trail = <<>>
    /\ search = [warnings |-> <<>>, filter_terms |-> <<>>]
    /\ found = <<>>
    /\ session = <<>>
    /\ saved = NullOpt
    /\ loaded = NullOpt
    /\ main = NullOpt
    /\ \E warnings \in BatchWarningLists, dry_run \in BOOLEAN, default_style \in Styles :
          run = [config |-> Config(dry_run, default_style), warnings |-> warnings,
                 phase |-> "START", batch |-> NullOpt, decisions |-> EmptyDecisions,
                 written |-> {}]
    /\ processor = NullOpt
    /\ shown = NullOpt
    /\ transformed = NullOpt

\* the batch branch of run
RunBatch ==
    /\ run.phase = "START"
    /\ LET batch == run_batch_mode(run.warnings, run.config)
       IN run' = [run EXCEPT
                    !.phase = "DONE",
                    !.batch = Some(batch),
                    !.decisions = batch.decisions,
                    !.written = apply_after_run(run.config, batch.decisions, run.warnings)]
    /\ UNCHANGED <<engine_vars, ui_vars, filter_vars, session_vars,
                   main, processor, shown, transformed>>

\* the interactive branch of run, from the return of the review session on
RunInteractive ==
    /\ run.phase = "START"
    /\ \E final_decisions \in DecisionsOver(run.warnings) :
          run' = [run EXCEPT
                    !.phase = "DONE",
                    !.decisions = final_decisions,
                    !.written = apply_after_run(run.config, final_decisions, run.warnings)]
    /\ UNCHANGED <<engine_vars, ui_vars, filter_vars, session_vars,
                   main, processor, shown, transformed>>

NextRun == RunBatch \/ RunInteractive

\* one run over any report, in batch mode or after a review session, dry or not
SpecRun == InitRun /\ [][NextRun]_vars

InitProcessor ==
    /\ orig = <<>>
    /\ file = create_annotated_file(orig)
    /\ before = file
    /\ last = NullOpt
    /\ resolved = NullOpt
    /\ applied = 0
    /\ model = UIModel(SampleWarnings)
    /\ trail = <<>>
    /\ search = [warnings |-> <<>>, filter_terms |-> <<>>]
    /\ found = <<>>
    /\ session = <<>>
    /\ saved = NullOpt
    /\ loaded = NullOpt
    /\ main = NullOpt
    /\ run = NullOpt
    /\ \E warnings \in ProcessorWarningLists :
          processor = [warnings |-> warnings, i |-> 0, fm |-> FileManager,
                       ended_by |-> "NONE"]
    /\ shown = NullOpt
    /\ transformed = NullOpt

UserAction(action) ==
    /\ processor.ended_by = "NONE"
    /\ \E current_style \in ProcessorStyles, in_range \in BOOLEAN :
          processor' = process_single_warning(processor, action, current_style, in_range)
    /\ UNCHANGED <<engine_vars, ui_vars, filter_vars, session_vars,
                   main, run, shown, transformed>>

Accept == UserAction("ACCEPT")
Skip == \E action \in {"SKIP", "STYLE_UP", "STYLE_DOWN"} : UserAction(action)
QuitProcessing == UserAction("QUIT")
ExitProcessing == UserAction("EXIT")
SaveFile == UserAction("SAVE")

NextProcessor == Accept \/ Skip \/ QuitProcessing \/ ExitProcessing \/ SaveFile

\* process_warnings over any report, with any answers of the user
SpecProcessor == InitProcessor /\ [][NextProcessor]_vars

(***************************************************************************)
(* Applying the decisions of a session to the files: NolintApp::           *)
(* apply_decisions_to_files of src/application/nolint_app.cpp, and SAVE_EXIT *)
(* of src/nolint_app.cpp with NolintApp::apply_decisions.                  *)
(***************************************************************************)
\* two warnings at one place, a third at another column of the same line, and
\* one in a second file
ApplySampleWarnings ==
    << UIWarning("a.cpp", 1, 1, "r1", Some(2)),
       UIWarning("a.cpp", 1, 1, "r2", NullOpt),
       UIWarning("a.cpp", 1, 5, "r1", NullOpt),
       UIWarning("b.cpp", 1, 1, "r1", NullOpt) >>

ApplyWarningLists ==
    UNION { { SubSeq(ApplySampleWarnings, from, from + n - 1) :
                n \in 1..Min(MaxWarnings, Len(ApplySampleWarnings) - from + 1) } :
            from \in 1..Len(ApplySampleWarnings) }

\* the files of the warnings, in the order of std::map<std::string, ...>
ApplyPaths == <<"a.cpp", "b.cpp">>

\* the lines of the files on disk
ApplyDisk ==
    [path \in {"a.cpp", "b.cpp"} |->
        IF path = "a.cpp" THEN << <<SP, "x">>, <<SP, "}">> >> ELSE << <<"y">> >>]

\* the first loop of apply_decisions_to_files: the decisions in the order of
\* the iteration, each with the first warning that has its key
RECURSIVE DecisionsToApply(_, _, _, _)
DecisionsToApply(decisions, order, warnings, n) ==
    IF n = 0 THEN <<>>
    ELSE LET key == order[n]
             style == decisions[key]
             matching == { k \in 1..Len(warnings) : warning_key(warnings[k]) = key }
             earlier == DecisionsToApply(decisions, order, warnings, n - 1)
         IN IF style = "NONE" \/ matching = {} THEN earlier
            ELSE LET warning_it == CHOOSE k \in matching : \A j \in matching : k <= j
                 IN Append(earlier, [key |-> key, warning |-> warnings[warning_it],
                                     style |-> style])

\* the loop of SAVE_EXIT that builds session_.decisions: every warning that
\* has the key of a decision is paired with the style of the decision
RECURSIVE WarningsOfKey(_, _, _, _)
WarningsOfKey(key, style, warnings, n) ==
    IF n = 0 THEN <<>>
    ELSE LET earlier == WarningsOfKey(key, style, warnings, n - 1)
         IN IF warning_key(warnings[n]) = key /\ style # "NONE"
            THEN Append(earlier, [key |-> key, warning |-> warnings[n], style |-> style])
            ELSE earlier

RECURSIVE SessionDecisions(_, _, _, _)
SessionDecisions(warning_decisions, order, warnings, n) ==
    IF n = 0 THEN <<>>
    ELSE SessionDecisions(warning_decisions, order, warnings, n - 1)
           \o WarningsOfKey(order[n], warning_decisions[order[n]], warnings, Len(warnings))

OfFile(entries, path) == SelectSeq(entries, LAMBDA e : e.warning.file_path = path)

AffectedPaths(entries) == SelectSeq(ApplyPaths, LAMBDA path : OfFile(entries, path) # <<>>)

\* "Apply all decisions for this file"
RECURSIVE ApplyAll(_, _, _)
ApplyAll(annotated_file, file_decisions, n) ==
    IF n = 0 THEN annotated_file
    ELSE apply_decision(ApplyAll(annotated_file, file_decisions, n - 1),
                        file_decisions[n].warning, file_decisions[n].style)

\* apply_decisions_to_files: the decisions applied and the files written
apply_decisions_to_files(decisions, order, warnings) ==
    LET entries == DecisionsToApply(decisions, order, warnings, Len(order))
        paths == AffectedPaths(entries)
    IN [applied |-> entries,
        written |->
          [i \in 1..Len(paths) |->
             LET file_decisions == OfFile(entries, paths[i])
                 annotated_file == create_annotated_file(ApplyDisk[paths[i]])
             IN [path |-> paths[i],
                 lines |-> render_annotated_file(
                               ApplyAll(annotated_file, file_decisions,
                                        Len(file_decisions)))]]]

\* the orders std::sort can leave the modifications in: descending target lines
SortedDescending(modifications) ==
    { sorted \in [1..Len(modifications) -> 1..Len(modifications)] :
         /\ \A i, j \in 1..Len(modifications) : i # j => sorted[i] # sorted[j]
         /\ \A i, j \in 1..Len(modifications) :
               i < j => modifications[sorted[i]].target_line
                           >= modifications[sorted[j]].target_line }

RECURSIVE ApplyInOrder(_, _, _, _)
ApplyInOrder(lines, modifications, sorted, n) ==
    IF n = 0 THEN lines
    ELSE apply_modification_to_lines(
             ApplyInOrder(lines, modifications, sorted, n - 1),
             modifications[sorted[n]]).lines

\* apply_modifications_to_lines: the line lists it can return
apply_modifications_to_lines(original_lines, modifications) ==
    { ApplyInOrder(original_lines, modifications, sorted, Len(modifications)) :
        sorted \in SortedDescending(modifications) }

\* the modifications NolintApp::apply_decisions creates for one file
ModificationsOf(file_warnings, original_lines) ==
    LET created == [i \in 1..Len(file_warnings) |->
                       create_modification(file_warnings[i].warning,
                                           file_warnings[i].style, original_lines)]
    IN SelectSeq(created, LAMBDA mod : mod.style # "NONE")

\* NolintApp::apply_decisions of src/nolint_app.cpp after SAVE_EXIT: the
\* results it can have
save_exit(warning_decisions, order, warnings) ==
    LET entries == SessionDecisions(warning_decisions, order, warnings, Len(order))
        paths == AffectedPaths(entries)
        texts(path) ==
            apply_modifications_to_lines(
                ApplyDisk[path], ModificationsOf(OfFile(entries, path), ApplyDisk[path]))
        all_texts == UNION { texts(paths[i]) : i \in 1..Len(paths) }
    IN { [applied |-> entries,
          written |-> [i \in 1..Len(paths) |-> [path |-> paths[i], lines |-> saved_lines[i]]]] :
           saved_lines \in { t \in [1..Len(paths) -> all_texts] :
                               \A i \in 1..Len(paths) : t[i] \in texts(paths[i]) } }

InitApply ==
    /\ orig = <<>>
    /\ file = create_annotated_file(orig)
    /\ before = file
    /\ last = NullOpt
    /\ resolved = NullOpt
    /\ applied = 0
    /\ model = UIModel(SampleWarnings)
    /\ trail = <<>>
    /\ search = [warnings |-> <<>>, filter_terms |-> <<>>]
    /\ found = <<>>
    /\ session = <<>>
    /\ saved = NullOpt
    /\ loaded = NullOpt
    /\ main = NullOpt
    /\ \E warnings \in ApplyWarningLists :
          \E decisions \in DecisionsOver(warnings) :
             run = [warnings |-> warnings, decisions |-> decisions, phase |-> "START",
                    order |-> <<>>, applied |-> <<>>, written |-> <<>>]
    /\ processor = NullOpt
    /\ shown = NullOpt
    /\ transformed = NullOpt

\* run of src/application/nolint_app.cpp applies the decisions of the session
ApplyToFiles ==
    /\ run.phase = "START"
    /\ DOMAIN run.decisions # {}
    /\ \E order \in IterationOrders(run.decisions) :
          LET result == apply_decisions_to_files(run.decisions, order, run.warnings)
          IN run' = [run EXCEPT !.phase = "APPLIED", !.order = order,
                                !.applied = result.applied, !.written = result.written]
    /\ UNCHANGED <<engine_vars, ui_vars, filter_vars, session_vars,
                   main, processor, shown, transformed>>

\* the user of src/nolint_app.cpp ends the review with SAVE_EXIT
SaveExitLegacy ==
    /\ run.phase = "START"
    /\ DOMAIN run.decisions # {}
    /\ \E order \in IterationOrders(run.decisions) :
          \E result \in save_exit(run.decisions, order, run.warnings) :
             run' = [run EXCEPT !.phase = "SAVED", !.order = order,
                                !.applied = result.applied, !.written = result.written]
    /\ UNCHANGED <<engine_vars, ui_vars, filter_vars, session_vars,
                   main, processor, shown, transformed>>

NextApply == ApplyToFiles \/ SaveExitLegacy

\* the decisions of any session are applied by either application
SpecApply == InitApply /\ [][NextApply]_vars

\* the modifications create_modification makes for the warnings of a file
ModificationsFor(file_lines) ==
    { create_modification(warning, style, file_lines) :
        warning \in Warnings, style \in Styles \ {"NONE"} }

RECURSIVE ModificationLists(_, _)
ModificationLists(file_lines, n) ==
    IF n = 0 THEN {<<>>}
    ELSE { Append(list, mod) : list \in ModificationLists(file_lines, n - 1),
                               mod \in ModificationsFor(file_lines) }

\* apply_modifications_to_lines is called with a list of modifications
TransformAll ==
    /\ transformed.mod = NullOpt
    /\ \E n \in 1..MaxOps :
          \E modifications \in ModificationLists(transformed.file_lines, n) :
             \E lines \in apply_modifications_to_lines(transformed.file_lines,
                                                       modifications) :
                transformed' = [transformed EXCEPT !.mod = modifications,
                                                   !.lines = lines]
    /\ UNCHANGED <<engine_vars, ui_vars, filter_vars, session_vars,
                   main, run, processor, shown>>

\* any list of modifications is applied to any file
SpecTextAll == InitText /\ [][TransformAll]_vars

(***************************************************************************)
(* The lines of one file in FileManager (src/file_manager.cpp): FileData   *)
(* with its line_offset, and the three ways a modification changes it.     *)
(***************************************************************************)
StringUtils_extract_indentation(line) ==
    LET first_non_space == { k \in 1..Len(line) : line[k] \notin {SP, TAB} }
    IN IF first_non_space = {} THEN <<>>
       ELSE SubSeq(line, 1, (CHOOSE k \in first_non_space :
                                \A j \in first_non_space : k <= j) - 1)

\* a Modification as NolintProcessor::create_modification fills it in
Modification(line_number, style, warning_type, indent, block_start_line, block_end_line) ==
    [line_number |-> line_number, style |-> style, warning_type |-> warning_type,
     indent |-> indent, block_start_line |-> block_start_line,
     block_end_line |-> block_end_line]

\* the modifications for warnings on the lines of a file, with block
\* boundaries inside the file
FileModifications(lines) ==
    UNION { { Modification(line_number, style, warning_type,
                           StringUtils_extract_indentation(lines[line_number]),
                           block_start_line, block_end_line) :
                style \in {"NOLINT_SPECIFIC", "NOLINTNEXTLINE", "NOLINT_BLOCK"},
                warning_type \in RuleIds,
                block_start_line \in 1..line_number,
                block_end_line \in line_number..Len(lines) } :
            line_number \in 1..Len(lines) }

apply_inline_nolint(file_data, mod) ==
    LET actual_line == mod.line_number + file_data.line_offset
    IN [file_data EXCEPT !.lines[actual_line] = @ \o <<SP, SP>> \o InlineComment(mod.warning_type)]

apply_nolintnextline(file_data, mod) ==
    LET actual_line == mod.line_number + file_data.line_offset
        nolint_line == NextLineComment(mod.indent, mod.warning_type)
    IN [file_data EXCEPT !.lines = InsertAt(@, actual_line - 1, nolint_line),
                         !.line_offset = @ + 1]

apply_nolint_block(file_data, mod) ==
    LET start_line == mod.block_start_line + file_data.line_offset
        end_line == mod.block_end_line + file_data.line_offset
    IN IF start_line <= 0 \/ end_line > Len(file_data.lines) THEN file_data
       ELSE LET extracted_indent ==
                    StringUtils_extract_indentation(file_data.lines[start_line])
                block_indent == IF extracted_indent # <<>> THEN extracted_indent
                                ELSE mod.indent
                begun == InsertAt(file_data.lines, start_line - 1,
                                  BeginComment(block_indent, mod.warning_type))
            IN [file_data EXCEPT
                  !.lines = InsertAt(begun, end_line,
                                     EndComment(block_indent, mod.warning_type)),
                  !.line_offset = @ + 2]

\* FileManager::apply_modification on the FileData of the file
file_data_apply_modification(file_data, mod) ==
    LET actual_line == mod.line_number + file_data.line_offset
    IN IF actual_line <= 0 \/ actual_line > Len(file_data.lines) THEN file_data
       ELSE LET changed ==
                    CASE mod.style = "NOLINT_SPECIFIC" -> apply_inline_nolint(file_data, mod)
                      [] mod.style = "NOLINTNEXTLINE" -> apply_nolintnextline(file_data, mod)
                      [] mod.style = "NOLINT_BLOCK" -> apply_nolint_block(file_data, mod)
                      [] OTHER -> file_data
            IN IF mod.style \in {"NOLINT_SPECIFIC", "NOLINTNEXTLINE", "NOLINT_BLOCK"}
               THEN [changed EXCEPT !.modified = TRUE]
               ELSE file_data

InitFileData ==
    /\ orig = <<>>
    /\ file = create_annotated_file(orig)
    /\ before = file
    /\ last = NullOpt
    /\ resolved = NullOpt
    /\ applied = 0
    /\ model = UIModel(SampleWarnings)
    /\ trail = <<>>
    /\ search = [warnings |-> <<>>, filter_terms |-> <<>>]
    /\ found = <<>>
    /\ session = <<>>
    /\ saved = NullOpt
    /\ loaded = NullOpt
    /\ main = NullOpt
    /\ run = NullOpt
    /\ processor = NullOpt
    /\ shown = NullOpt
    /\ \E file_lines \in TextLineLists \ {<<>>} :
          transformed = [original_lines |-> file_lines, mods |-> <<>>,
                         file_data |-> [lines |-> file_lines, line_offset |-> 0,
                                        modified |-> FALSE]]

\* one call of FileManager::apply_modification for the file
ApplyModification ==
    /\ Len(transformed.mods) < MaxOps
    /\ \E mod \in FileModifications(transformed.original_lines) :
          transformed' =
              [transformed EXCEPT
                 !.mods = Append(@, mod),
                 !.file_data = file_data_apply_modification(@, mod)]
    /\ UNCHANGED <<engine_vars, ui_vars, filter_vars, session_vars,
                   main, run, processor, shown>>

\* any modifications are applied to a file, in any order of their lines
SpecFileData == InitFileData /\ [][ApplyModification]_vars

(***************************************************************************)
(* Reading a rendered file back: which output lines are inserted comment   *)
(* lines, and where the original lines ended up.                           *)
(***************************************************************************)
IsInserted(s) ==
    \E k \in 1..Len(s) :
        s[k] \in {"// NOLINTBEGIN(", "// NOLINTEND(", "// NOLINTNEXTLINE("}

CodeCountUpTo(out, p) == Cardinality({ q \in 1..p : ~IsInserted(out[q]) })

\* position in out of the original line i (0-based); 0 for the line before the
\* first, Len(out) + 1 for the line after the last
CodePos(out, i) ==
    IF i < 0 THEN 0
    ELSE IF i >= CodeCountUpTo(out, Len(out)) THEN Len(out) + 1
    ELSE CHOOSE p \in 1..Len(out) : ~IsInserted(out[p]) /\ CodeCountUpTo(out, p) = i + 1

BlocksStartingAt(f, i) == { k \in 1..Len(f.blocks) : f.blocks[k].start_line = i }
BlocksEndingAt(f, i) == { k \in 1..Len(f.blocks) : f.blocks[k].end_line = i }

\* number of output lines the original lines before line i account for
RECURSIVE Offset(_, _)
Offset(f, i) ==
    IF i = 0 THEN 0
    ELSE Offset(f, i - 1) + Cardinality(BlocksStartingAt(f, i - 1))
            + Len(LineAt(f, i - 1).before_comments) + 1
            + Cardinality(BlocksEndingAt(f, i - 1))

\* how many of the n output lines after position from are equal to v
CountIn(out, from, n, v) == Cardinality({ p \in (from + 1)..(from + n) : out[p] = v })

OutOfRange(warning, f) == warning.line_number = 0 \/ warning.line_number > Len(f.lines)

LastCall == Value(last)

\* C1: after any sequence of apply calls the document has the lines it was
\* created with: the same number of lines, each with its original text.
C1_LinesNeverChange == Texts(file) = orig

W_C1_Decorated ==
    /\ applied = MaxOps
    /\ Len(orig) = MaxLines
    /\ Len(file.blocks) >= 1
    /\ \E i \in 1..Len(file.lines) : file.lines[i].before_comments # <<>>

\* C2: render emits, for each original line in ascending order, one begin marker
\* per block starting there, then the line's before_comments in list order, then
\* the original text (with two spaces and the inline comment when one is set),
\* then one end marker per block ending there, whatever the order of the calls.
C2_RenderOrder ==
    LET out == render_annotated_file(file)
        n == Len(file.lines)
    IN /\ Len(out) = Offset(file, n)
       /\ \A i \in 0..(n - 1) :
            LET l == LineAt(file, i)
                indent == extract_indentation(l.text)
                nb == Cardinality(BlocksStartingAt(file, i))
                nc == Len(l.before_comments)
                ne == Cardinality(BlocksEndingAt(file, i))
                o == Offset(file, i)
            IN /\ \A r \in RuleIds :
                    CountIn(out, o, nb, BeginComment(indent, r))
                        = Cardinality({ k \in BlocksStartingAt(file, i) :
                                            file.blocks[k].warning_type = r })
               /\ SubSeq(out, o + nb + 1, o + nb + nc) = l.before_comments
               /\ out[o + nb + nc + 1] =
                    IF HasValue(l.inline_comment)
                    THEN l.text \o <<SP, SP>> \o Value(l.inline_comment)
                    ELSE l.text
               /\ \A r \in RuleIds :
                    CountIn(out, o + nb + nc + 1, ne, EndComment(indent, r))
                        = Cardinality({ k \in BlocksEndingAt(file, i) :
                                            file.blocks[k].warning_type = r })

\* a block applied after the next-line comment of the line it starts on
W_C2_BlockAfterComment ==
    /\ HasValue(last)
    /\ LastCall.style = "NOLINT_BLOCK"
    /\ Len(file.blocks) = Len(before.blocks) + 1
    /\ \E i \in 0..(Len(file.lines) - 1) :
          /\ file.blocks[Len(file.blocks)].start_line = i
          /\ LineAt(before, i).before_comments # <<>>

\* the begin marker of block b sits between original line start_line - 1 and
\* original line start_line, its end marker between end_line and end_line + 1
MarkersPlaced(f, b) ==
    /\ b.start_line < Len(f.lines)
    /\ b.end_line < Len(f.lines)
    /\ LET out == render_annotated_file(f)
       IN /\ \E p \in 1..Len(out) :
                /\ out[p] = BeginComment(extract_indentation(LineAt(f, b.start_line).text),
                                         b.warning_type)
                /\ CodePos(out, b.start_line - 1) < p
                /\ p < CodePos(out, b.start_line)
          /\ \E q \in 1..Len(out) :
                /\ out[q] = EndComment(extract_indentation(LineAt(f, b.end_line).text),
                                       b.warning_type)
                /\ CodePos(out, b.end_line) < q
                /\ q < CodePos(out, b.end_line + 1)

\* C3: a recorded BlockSuppression keeps its start_line and
\* end_line through every later apply call, and render still puts its begin marker
\* before original line start_line and its end marker after original line end_line.
C3_BlocksStable ==
    \A k \in 1..Len(before.blocks) :
        /\ k <= Len(file.blocks)
        /\ file.blocks[k] = before.blocks[k]
        /\ MarkersPlaced(file, file.blocks[k])

\* a next-line comment goes in at or above the start of a recorded block
W_C3_CommentAboveBlock ==
    /\ HasValue(last)
    /\ LastCall.style = "NOLINTNEXTLINE"
    /\ file # before
    /\ Len(before.blocks) = 1
    /\ LastCall.warning.line_number - 1 <= before.blocks[1].start_line
    /\ before.blocks[1].start_line < before.blocks[1].end_line

\* C4: rendering a freshly created document gives back the input lines exactly.
C4_RoundTrip == applied = 0 => render_annotated_file(file) = orig

W_C4_BlankLines ==
    /\ applied = 0
    /\ Len(orig) = 2
    /\ orig[1] = <<>>
    /\ orig[2] = <<SP>>

\* C5: an apply call whose line number is 0 or beyond the last line leaves the
\* document rendering exactly as it did before the call, for every style.
C5_OutOfRangeNoOp ==
    (HasValue(last) /\ OutOfRange(LastCall.warning, before))
        => render_annotated_file(file) = render_annotated_file(before)

W_C5_StaleWarning ==
    /\ HasValue(last)
    /\ Len(before.lines) > 0
    /\ LastCall.warning.line_number > Len(before.lines)
    /\ LastCall.style = "NOLINTNEXTLINE"
    /\ before # create_annotated_file(orig)

\* C6: an apply call with style BlockRange for a warning that has no
\* function_line_count adds no BlockSuppression, and the document renders as it
\* did before the call.
C6_BlockWithoutHintNoOp ==
    (/\ HasValue(last)
     /\ LastCall.style = "NOLINT_BLOCK"
     /\ ~HasValue(LastCall.warning.function_lines))
        => /\ Len(file.blocks) = Len(before.blocks)
           /\ render_annotated_file(file) = render_annotated_file(before)

\* C7: whenever the boundary resolver is called, for any line list, any line
\* number and any function_line_count (0 and counts reaching past the end of the
\* file included), the start and the end it returns lie in [0, lines.size()-1].
C7_ResolvedInRange ==
    HasValue(resolved) =>
        /\ Value(resolved)[1] \in 0..(Len(file.lines) - 1)
        /\ Value(resolved)[2] \in 0..(Len(file.lines) - 1)

\* the warning on screen in the review loop
CurrentWarning == model.warnings[get_actual_warning_index(model) + 1]

\* the last input and the one before it
LastInput == trail[Len(trail)]
InputBefore == trail[Len(trail) - 1]

\* the last two inputs cycled the style of the warning on screen, once each way
CycledThereAndBack ==
    /\ Len(trail) >= 2
    /\ {InputBefore.event, LastInput.event} = {"ARROW_UP", "ARROW_DOWN"}
    /\ InputBefore.mode = "REVIEWING"
    /\ LastInput.mode = "REVIEWING"

\* C8: (as stated) for every style and whether or not the block style is available
\* for the warning, cycling up then down, or down then up, returns to the style
\* the warning showed before.
C8_CyclingReversible ==
    CycledThereAndBack => get_current_style(model) = InputBefore.style

\* C8: (amended) for every style that is available for the warning (None,
\* LineSpecific and NextLinePrefix always, BlockRange when the warning has a
\* function_line_count), cycling up then down, or down then up, returns to the
\* style the warning showed before.
C8_CyclingReversibleWhenAvailable ==
    (CycledThereAndBack /\ is_style_available(InputBefore.style, CurrentWarning))
        => get_current_style(model) = InputBefore.style

\* up then down across the skipped block style, and down then up across it
W_C8_AcrossSkippedBlock ==
    /\ CycledThereAndBack
    /\ ~HasValue(CurrentWarning.function_lines)
    /\ \/ InputBefore.event = "ARROW_UP" /\ InputBefore.style = "NOLINTNEXTLINE"
       \/ InputBefore.event = "ARROW_DOWN" /\ InputBefore.style = "NONE"

\* the style cycling up leads to, by the order of the cycle
NextInOrder(style, block_available) ==
    CASE style = "NONE" -> "NOLINT_SPECIFIC"
      [] style = "NOLINT_SPECIFIC" -> "NOLINTNEXTLINE"
      [] style = "NOLINTNEXTLINE" -> IF block_available THEN "NOLINT_BLOCK" ELSE "NONE"
      [] style = "NOLINT_BLOCK" -> "NONE"

C10_InlineLastWins ==
    HasValue(last) =>
        \A i \in 0..(Len(file.lines) - 1) :
            IF /\ LastCall.style = "NOLINT_SPECIFIC"
               /\ LastCall.warning.line_number = i + 1
            THEN /\ LineAt(file, i).inline_comment
                      = Some(<<"// NOLINT(", LastCall.warning.warning_type, ")">>)
                 /\ LET out == render_annotated_file(file)
                    IN out[CodePos(out, i)]
                          = LineAt(file, i).text
                              \o <<SP, SP, "// NOLINT(", LastCall.warning.warning_type, ")">>
            ELSE LineAt(file, i).inline_comment = LineAt(before, i).inline_comment

\* a second LineSpecific call, for another rule, on a line that has an inline comment
W_C10_Overwritten ==
    /\ HasValue(last)
    /\ LastCall.style = "NOLINT_SPECIFIC"
    /\ ~OutOfRange(LastCall.warning, before)
    /\ LET l == LineAt(before, LastCall.warning.line_number - 1)
       IN /\ HasValue(l.inline_comment)
          /\ Value(l.inline_comment) # InlineComment(LastCall.warning.warning_type)

\* C11: a NextLinePrefix call for an in-range line appends exactly one comment,
\* naming the call's rule id, to that line's before_comments, whether or not the
\* line carries the same comment already; no call removes or reorders a comment;
\* render puts the line's comments, in list order, directly before the line.
C11_NextLineAppends ==
    HasValue(last) =>
        \A i \in 0..(Len(file.lines) - 1) :
            LET was == LineAt(before, i).before_comments
                now == LineAt(file, i).before_comments
                out == render_annotated_file(file)
            IN /\ IF /\ LastCall.style = "NOLINTNEXTLINE"
                     /\ LastCall.warning.line_number = i + 1
                  THEN now = Append(was,
                                <<>> \o extract_indentation(LineAt(file, i).text)
                                     \o <<"// NOLINTNEXTLINE(",
                                          LastCall.warning.warning_type, ")">>)
                  ELSE now = was
               /\ SubSeq(out, CodePos(out, i) - Len(now), CodePos(out, i) - 1) = now

\* the same warning applied as NextLinePrefix twice: two equal comments on the line
W_C11_Duplicate ==
    /\ HasValue(last)
    /\ LastCall.style = "NOLINTNEXTLINE"
    /\ ~OutOfRange(LastCall.warning, before)
    /\ LET now == LineAt(file, LastCall.warning.line_number - 1).before_comments
       IN Len(now) = 2 /\ now[1] = now[2]

\* the lines of f and g differ at most in the named decoration of line i
SameLinesExcept(f, g, i, decoration) ==
    /\ Len(f.lines) = Len(g.lines)
    /\ \A j \in 0..(Len(f.lines) - 1) :
          /\ LineAt(f, j).text = LineAt(g, j).text
          /\ (j # i \/ decoration # "inline_comment")
                => LineAt(f, j).inline_comment = LineAt(g, j).inline_comment
          /\ (j # i \/ decoration # "before_comments")
                => LineAt(f, j).before_comments = LineAt(g, j).before_comments

\* C12: an apply call changes at most the decoration its style designates: None
\* nothing, LineSpecific the inline comment of the target line, NextLinePrefix
\* the before_comments of the target line, BlockRange the block list; every other
\* decoration of every line is as it was.
C12_OneDecoration ==
    HasValue(last) =>
        LET i == LastCall.warning.line_number - 1
        IN CASE LastCall.style = "NONE" -> file = before
             [] LastCall.style = "NOLINT_SPECIFIC" ->
                   /\ file.blocks = before.blocks
                   /\ SameLinesExcept(file, before, i, "inline_comment")
             [] LastCall.style = "NOLINTNEXTLINE" ->
                   /\ file.blocks = before.blocks
                   /\ SameLinesExcept(file, before, i, "before_comments")
             [] LastCall.style = "NOLINT_BLOCK" -> file.lines = before.lines

\* a LineSpecific call in a document where another line is already decorated
W_C12_OtherLinesDecorated ==
    /\ HasValue(last)
    /\ LastCall.style = "NOLINT_SPECIFIC"
    /\ ~OutOfRange(LastCall.warning, before)
    /\ \E j \in 0..(Len(before.lines) - 1) :
          /\ j # LastCall.warning.line_number - 1
          /\ LineAt(before, j) # AnnotatedLine(LineAt(before, j).text)

\* C13: when the resolver is called for a warning with function_line_count N, it
\* returns start_line = line - 1 and end_line = min(start_line + N - 1,
\* lines.size() - 1), for every N.
C13_BlockRangeFormula ==
    HasValue(resolved) =>
        LET N == Value(LastCall.warning.function_lines)
            start_line == LastCall.warning.line_number - 1
        IN Value(resolved) = <<start_line, Min(start_line + N - 1, Len(file.lines) - 1)>>

\* the whitespace-separated terms of a filter text
TermsOf(text) ==
    { SubSeq(text, i, j) : <<i, j>> \in
        { ij \in (1..Len(text)) \X (1..Len(text)) :
            /\ ij[1] <= ij[2]
            /\ \A k \in ij[1]..ij[2] : ~isspace(text[k])
            /\ (ij[1] = 1 \/ isspace(text[ij[1] - 1]))
            /\ (ij[2] = Len(text) \/ isspace(text[ij[2] + 1])) } }

\* term occurs in field when case is ignored
OccursIgnoringCase(term, field) ==
    \E k \in 0..(Len(field) - Len(term)) :
        \A m \in 1..Len(term) : tolower(field[k + m]) = tolower(term[m])

MatchesQuery(warning, text) ==
    \A term \in TermsOf(text) :
        \E field \in {warning.file_path, warning.warning_type, warning.message,
                      to_string(warning.line_number)} :
            OccursIgnoringCase(term, field)

Ascending(indices) ==
    \A k \in 1..(Len(indices) - 1) : indices[k] < indices[k + 1]

Listed(indices) == { indices[k] : k \in 1..Len(indices) }

\* C14: for a filter text with at least one term the filter returns exactly the
\* warnings for which every term occurs, ignoring case, in the file path, the rule
\* id, the message or the decimal line number; when none does it returns nothing.
C14_FilterMatchesAllTerms ==
    TermsOf(search.filter_terms) # {} =>
        /\ Ascending(found)
        /\ Listed(found) = { i \in 0..(Len(search.warnings) - 1) :
                                MatchesQuery(search.warnings[i + 1], search.filter_terms) }

\* C15: whatever the filter text, the filter returns a subsequence of the warning
\* list: indices into the list, each at most once, in ascending order.
C15_FilterSubsequence ==
    /\ Ascending(found)
    /\ Listed(found) \subseteq 0..(Len(search.warnings) - 1)

\* a filter text that keeps the second of two warnings and drops the first
W_C15_ProperSelection ==
    /\ search.filter_terms # <<>>
    /\ Len(search.warnings) = 2
    /\ found = <<1>>

\* C16: an empty filter text and one of whitespace only both return every
\* warning of the list, in list order.
C16_BlankFilterReturnsAll ==
    TermsOf(search.filter_terms) = {} => found = all_indices(search.warnings)

\* the entries of a decision map that ask for a suppression
Suppressing(decisions) == { key \in DOMAIN decisions : decisions[key] # "NONE" }

\* C17: every suppression count the program shows leaves out the entries whose
\* style is None: the counter of the review screen and the count in the quit
\* prompt both equal the number of entries with a non-None style.
C17_CountsLeaveOutNone ==
    /\ (~model.quit_confirmation_needed /\ ~model.show_boundary_message
            /\ Len(model.filtered_indices) = 0)
         => status_line(model)[2] = Cardinality(Suppressing(model.decisions))
    /\ model.quit_confirmation_needed
         => status_line(model)[2] = Cardinality(Suppressing(model.decisions))

\* the warnings of one rule id, by their position in the list
OfRule(warnings, rule) ==
    { i \in 1..Len(warnings) : warnings[i].warning_type = rule }

\* C20: in the statistics computed when the statistics view opens, the entry of
\* each rule id counts as addressed the warnings of the rule whose key maps to a
\* non-None style (a None entry and an absent entry do not count) and as visited
\* the warnings of the rule whose key is in the visited set.
C20_StatisticsCounts ==
    (/\ Len(trail) > 0
     /\ LastInput.event = "SHOW_STATISTICS"
     /\ LastInput.mode = "REVIEWING")
        => \A rule \in RuleIds :
              LET of_rule == OfRule(model.warnings, rule)
                  entries == { k \in 1..Len(model.warning_stats) :
                                  model.warning_stats[k].warning_type = rule }
              IN /\ Cardinality(entries) = IF of_rule = {} THEN 0 ELSE 1
                 /\ \A k \in entries :
                       /\ model.warning_stats[k].total_count = Cardinality(of_rule)
                       /\ model.warning_stats[k].addressed_count =
                             Cardinality({ i \in of_rule :
                                 warning_key(model.warnings[i])
                                     \in Suppressing(model.decisions) })
                       /\ model.warning_stats[k].visited_count =
                             Cardinality({ i \in of_rule :
                                 warning_key(model.warnings[i])
                                     \in model.visited_warnings })

\* statistics opened with one decision of None and one suppression: of the two
\* warnings of a rule one is addressed, and one of them was never on screen
W_C20_NoneNotAddressed ==
    /\ Len(trail) > 0
    /\ LastInput.event = "SHOW_STATISTICS"
    /\ LastInput.mode = "REVIEWING"
    /\ \E key \in DOMAIN model.decisions : model.decisions[key] = "NONE"
    /\ \E k \in 1..Len(model.warning_stats) :
          /\ model.warning_stats[k].total_count = 2
          /\ model.warning_stats[k].addressed_count = 1
          /\ model.warning_stats[k].visited_count = 2

\* C18: only the entries with a non-None style are written, and loading a saved
\* session gives back exactly those entries, keys and styles unchanged.
C18_SaveLoadRoundTrip ==
    (HasValue(saved) /\ HasValue(loaded))
        => /\ Len(session) = Cardinality(Suppressing(Value(saved)))
           /\ Value(loaded) = [key \in Suppressing(Value(saved)) |-> Value(saved)[key]]

\* the line has exactly one delimiter
WellFormed(line) == Cardinality({ k \in 1..Len(line) : line[k] = PIPE }) = 1

KeyOf(line) == SubSeq(line, 1, (CHOOSE k \in 1..Len(line) : line[k] = PIPE) - 1)

TokenOf(line) == SubSeq(line, (CHOOSE k \in 1..Len(line) : line[k] = PIPE) + 1, Len(line))

\* C19: loading never fails on content: lines without exactly one delimiter are
\* skipped, every line with exactly one delimiter gives its key an entry (the
\* last such line of a key decides), and a style name that is none of the three
\* suppression names gives the style None.
C19_LoadSkipsMalformed ==
    HasValue(loaded) =>
        LET decisions == Value(loaded)
            good == { n \in 1..Len(session) : WellFormed(session[n]) }
        IN /\ DOMAIN decisions = { KeyOf(session[n]) : n \in good }
           /\ \A n \in good :
                 (\A later \in good : later > n => KeyOf(session[later]) # KeyOf(session[n]))
                    => decisions[KeyOf(session[n])] =
                          IF TokenOf(session[n]) \in { <<"NOLINT_SPECIFIC">>,
                                                       <<"NOLINTNEXTLINE">>,
                                                       <<"NOLINT_BLOCK">> }
                          THEN TokenOf(session[n])[1]
                          ELSE "NONE"

\* a file with a line of two delimiters and a line with an unknown style name
W_C19_MalformedAndUnknown ==
    /\ HasValue(loaded)
    /\ \E n \in 1..Len(session) :
          Cardinality({ k \in 1..Len(session[n]) : session[n][k] = PIPE }) = 2
    /\ \E n \in 1..Len(session) :
          /\ WellFormed(session[n])
          /\ TokenOf(session[n]) = <<"UNKNOWN_STYLE">>
          /\ Value(loaded)[KeyOf(session[n])] = "NONE"

\* the byte values std::string compares
CharCode ==
    (SP :> 32) @@ ("2" :> 50) @@ ("B" :> 66) @@ ("C" :> 67) @@ ("R" :> 82)
       @@ ("a" :> 97) @@ ("b" :> 98) @@ ("c" :> 99) @@ ("r" :> 114)

\* a comes before b in alphabetical (byte-wise lexicographic) order
Precedes(a, b) ==
    \E k \in 1..(Len(a) + 1) :
        /\ k <= Len(b)
        /\ \A j \in 1..(k - 1) : a[j] = b[j]
        /\ k <= Len(a) => CharCode[a[k]] < CharCode[b[k]]

\* C21: the records of the statistics result are in alphabetical order of their
\* rule ids, whatever the warnings and the decisions.
C21_StatisticsAlphabetical ==
    main.model.show_statistics
        => \A i, j \in DOMAIN main.model.statistics_types :
              i < j => Precedes(main.model.statistics_types[i],
                                main.model.statistics_types[j])

\* C22: addressed_percentage is the truncated quotient addressed*100/total when
\* total > 0 and 0 when total = 0, and lies in 0..100 whenever addressed <= total.
C22_PercentageTruncates ==
    HasValue(shown.percentage) =>
        LET p == Value(shown.percentage)
            total == shown.record.total_count
            addressed == shown.record.addressed_count
        IN /\ total = 0 => p = 0
           /\ total > 0 => /\ p * total <= addressed * 100
                           /\ addressed * 100 < (p + 1) * total
           /\ addressed <= total => p \in 0..100

\* 1 of 3 addressed gives 33, and 2 of 3 gives 66
W_C22_Truncated ==
    /\ HasValue(shown.percentage)
    /\ shown.record.total_count = 3
    /\ shown.record.addressed_count = 2
    /\ Value(shown.percentage) = 66

\* the indentation the claim gives a comment that decorates the line
DecorationIndent(line) ==
    IF \A k \in 1..Len(line) : line[k] \in {SP, TAB} THEN <<>>
    ELSE SubSeq(line, 1, (CHOOSE k \in 1..Len(line) :
                             /\ line[k] \notin {SP, TAB}
                             /\ \A j \in 1..(k - 1) : line[j] \in {SP, TAB}) - 1)

\* C23: every inserted comment line (next-line, block-begin, block-end) starts
\* with the leading spaces and tabs of the original text of the line it
\* decorates, and with nothing when that line is empty or only whitespace.
C23_IndentFromDecoratedLine ==
    HasValue(transformed.mod) =>
        LET mod == Value(transformed.mod)
            original == transformed.file_lines
            out == transformed.lines
            size == Len(original)
        IN /\ (mod.style = "NOLINTNEXTLINE" /\ mod.target_line \in 1..size)
                 => out[mod.target_line] =
                       NextLineComment(DecorationIndent(original[mod.target_line]),
                                       mod.warning_type)
           /\ (/\ mod.style = "NOLINT_BLOCK"
               /\ HasValue(mod.block_start_line)
               /\ HasValue(mod.block_end_line)
               /\ Value(mod.block_start_line) \in 1..size
               /\ Value(mod.block_end_line) \in Value(mod.block_start_line)..size)
                 => /\ out[Value(mod.block_start_line)] =
                          BeginComment(DecorationIndent(original[Value(mod.block_start_line)]),
                                       mod.warning_type)
                    /\ out[Value(mod.block_end_line) + 2] =
                          EndComment(DecorationIndent(original[Value(mod.block_end_line)]),
                                     mod.warning_type)

\* C24: in batch mode every warning has a decision, the default style when that
\* style is available for the warning and the inline style otherwise, and the
\* number of suppressions created is the number of warnings.
C24_BatchDecidesEveryWarning ==
    HasValue(run.batch) =>
        LET batch == Value(run.batch)
        IN /\ \A k \in 1..Len(run.warnings) :
                 LET warning == run.warnings[k]
                     key == warning_key(warning)
                 IN /\ key \in DOMAIN batch.decisions
                    /\ batch.decisions[key] =
                          IF is_style_available(run.config.default_style, warning)
                          THEN run.config.default_style
                          ELSE "NOLINT_SPECIFIC"
           /\ batch.created = Len(run.warnings)

\* C25: when dry_run is set, a run writes no source file, in batch mode and
\* after a review session, whatever the decisions are.
C25_DryRunWritesNothing ==
    (run.phase = "DONE" /\ run.config.dry_run) => run.written = {}

\* a dry run in batch mode that ends with suppressions decided
W_C25_DryRunWithSuppressions ==
    /\ run.phase = "DONE"
    /\ run.config.dry_run
    /\ \E key \in DOMAIN run.decisions : run.decisions[key] # "NONE"
    /\ HasValue(run.batch)

\* C26: with a non-empty decision map, a QUIT ends the session only when the
\* input before it was a QUIT too; a QUIT after any other input (or as the
\* first input) only raises the confirmation prompt, also when the prompt had
\* been raised before and that other input cancelled it.
C26_QuitNeedsTwoInARow ==
    (trail # <<>> /\ LastInput.event = "QUIT" /\ LastInput.decided)
        => IF Len(trail) = 2 /\ InputBefore.event = "QUIT"
           THEN model.mode = "EXIT"
           ELSE /\ model.mode # "EXIT"
                /\ model.quit_confirmation_needed
                /\ ~LastInput.asked

\* the prompt was up, another key cancelled it, and the next QUIT raised it again
W_C26_CancelledThenAsked ==
    /\ Len(trail) = 2
    /\ InputBefore.event # "QUIT"
    /\ InputBefore.asked
    /\ LastInput.event = "QUIT"
    /\ LastInput.decided
    /\ model.quit_confirmation_needed
    /\ model.mode # "EXIT"

\* C27: after a session that a confirmed QUIT ended, run applies none of the
\* decisions made in the session: no source file is written.
C27_QuitAppliesNothing ==
    (run.phase = "DONE" /\ LastInput.event = "QUIT")
        => /\ run.written = {}
           /\ run.decisions = EmptyDecisions

\* a run without dry_run whose session had a suppression on screen when the
\* confirming QUIT came
W_C27_QuitWithSuppressions ==
    /\ run.phase = "DONE"
    /\ ~run.config.dry_run
    /\ LastInput.event = "QUIT"
    /\ LastInput.decided
    /\ LastInput.style # "NONE"

\* C28: when the user ends the processing with QUIT, the accepted changes are
\* rolled back and nothing is written at the end of process_warnings; only
\* files the user saved explicitly have been written.
C28_QuitRollsBack ==
    processor.ended_by = "QUIT"
        => /\ \A w \in processor.fm.writes : w.by = "SAVE"
           /\ \A p \in DOMAIN processor.fm.files :
                 processor.fm.files[p].lines = processor.fm.files[p].original_lines

\* C29: after a search filter is applied the current index refers to a
\* warning of the active list, so that reading the current warning stays in
\* bounds, and a filter that matches nothing leaves the full list active.
C29_FilterKeepsIndexValid ==
    (main.event = "RETURN" /\ main.model.warnings # <<>>)
        => /\ InBounds(main.model)
           /\ ~main.fault
           /\ main_filter_warnings(main.model.warnings, main.model.search_filter) = <<>>
                 => main.model.filtered_warning_indices
                       = main_filter_warnings(main.model.warnings, <<>>)

\* C30: ARROW_LEFT and ARROW_RIGHT keep the current index inside the active
\* list: from an index inside the list they lead to an index inside it,
\* ARROW_LEFT at the first warning and ARROW_RIGHT at the last one leave the
\* index where it is, and with an empty warning list no event changes the
\* index or creates a decision.
C30_ArrowsStayInside ==
    [][ /\ (/\ main'.event \in {"ARROW_LEFT", "ARROW_RIGHT"}
            /\ main.model.warnings # <<>>
            /\ InBounds(main.model))
           => /\ InBounds(main'.model)
              /\ (main'.event = "ARROW_LEFT" /\ main.model.current_index = 0)
                    => main'.model.current_index = 0
              /\ (/\ main'.event = "ARROW_RIGHT"
                  /\ main.model.current_index = total_warnings(main.model) - 1)
                    => main'.model.current_index = main.model.current_index
        /\ main.model.warnings = <<>>
              => /\ main'.model.current_index = main.model.current_index
                 /\ main'.model.decisions = main.model.decisions ]_vars

\* ARROW_RIGHT was pressed on the only warning that a filter left of two
W_C30_RightAtLastOfFiltered ==
    /\ main.event = "ARROW_RIGHT"
    /\ main.model.search_filter # <<>>
    /\ total_warnings(main.model) = 1
    /\ Len(main.model.warnings) = 2
    /\ main.model.current_index = 0
    /\ ~main.fault

\* C31: at apply time every decision with a style other than NONE is applied
\* to the document of its file exactly once, every affected file is written
\* exactly once, and a file without such a decision is not written.
TimesApplied(key) == Len(SelectSeq(run.applied, LAMBDA e : e.key = key))

TimesWritten(path) == Len(SelectSeq(run.written, LAMBDA w : w.path = path))

C31_AppliedExactlyOnce ==
    run.phase # "START"
        => /\ \A key \in DOMAIN run.decisions :
                TimesApplied(key) = IF run.decisions[key] # "NONE" THEN 1 ELSE 0
           /\ \A path \in {"a.cpp", "b.cpp"} :
                TimesWritten(path) =
                    IF \E k \in 1..Len(run.warnings) :
                          /\ run.warnings[k].file_path = path
                          /\ warning_key(run.warnings[k]) \in DOMAIN run.decisions
                          /\ run.decisions[warning_key(run.warnings[k])] # "NONE"
                    THEN 1 ELSE 0

\* C32: the text written for a file depends on the contents of the decision
\* map only: whatever the order in which the map is iterated, the files
\* written and their lines are the same.
C32_OrderIndependent ==
    run.phase = "APPLIED"
        => \A order \in IterationOrders(run.decisions) :
              apply_decisions_to_files(run.decisions, order, run.warnings).written
                  = run.written

\* C33: a change of the style of the current warning changes the decision
\* of that warning only: the style of every other warning of the list,
\* another warning at the same file, line and column included, stays as it was.
StyleOf(m, k) ==
    IF warning_key(m.warnings[k]) \in DOMAIN m.decisions
    THEN m.decisions[warning_key(m.warnings[k])]
    ELSE "NONE"

C33_StyleChangeIsLocal ==
    [][ (/\ model.mode = "REVIEWING"
         /\ model'.mode = "REVIEWING"
         /\ model'.decisions # model.decisions)
           => \A k \in 1..Len(model.warnings) :
                 k # get_actual_warning_index(model) + 1
                    => StyleOf(model', k) = StyleOf(model, k) ]_vars

\* C34: every block suppression recorded by apply_decision has
\* start_line <= end_line <= lines.size() - 1, so that the rendered file has
\* its begin marker before its end marker.
C34_BlockRangeOrdered ==
    \A k \in 1..Len(file.blocks) :
        /\ file.blocks[k].start_line <= file.blocks[k].end_line
        /\ file.blocks[k].end_line <= Len(file.lines) - 1

\* C35: starting from an empty decision map, no warning without a function
\* line count ever has the decision NOLINT_BLOCK.
C35_NoBlockWithoutFunctionLines ==
    \A k \in 1..Len(model.warnings) :
        ~HasValue(model.warnings[k].function_lines)
            => get_current_style([model EXCEPT !.current_index = k - 1,
                                               !.filtered_indices = <<>>])
                  # "NOLINT_BLOCK"

\* C36: a warning that is displayed in the review screen is in the visited
\* set from the next event on, and no warning ever leaves the visited set.
C36_DisplayedIsVisited ==
    [][ /\ (/\ model.mode = "REVIEWING"
            /\ Len(model.warnings) # 0
            /\ model.current_index < get_active_warning_count(model))
           => warning_key(model.warnings[get_actual_warning_index(model) + 1])
                 \in model'.visited_warnings
        /\ model.visited_warnings \subseteq model'.visited_warnings ]_vars

\* C37: navigation never changes decisions, so the style shown for a warning
\* on return to it is the style last chosen for it, and a warning that was
\* never visited for styling shows NONE: when the first style of a session is
\* chosen, every warning but the one it was chosen for still shows NONE.
C37_NavigationKeepsDecisions ==
    [][ /\ model'.current_index # model.current_index
           => model'.decisions = model.decisions
        /\ (DOMAIN model.decisions = {} /\ model'.mode = "REVIEWING")
           => \A k \in 1..Len(model.warnings) :
                 k # get_actual_warning_index(model) + 1
                    => StyleOf(model', k) = "NONE" ]_vars

\* C38: whatever the order of the modifications in the list, every comment of
\* a modification with a target inside the file is attached to the line that
\* its line number designates in the original lines: an inline comment is on
\* the target line, a NOLINTNEXTLINE or NOLINTBEGIN comment is before the line
\* of its number, and a NOLINTEND comment is after the line of its number.
StartsWith(line, prefix) ==
    Len(line) >= Len(prefix) /\ SubSeq(line, 1, Len(prefix)) = prefix

HasInline(line, type) ==
    \E k \in 1..(Len(line) - 1) : line[k] = "// NOLINT(" /\ line[k + 1] = type

\* the comment is a line of out with exactly n original lines before it
CommentAfter(out, comment, n) ==
    \E p \in 1..Len(out) : StartsWith(out[p], comment) /\ CodeCountUpTo(out, p) = n

AtTarget(out, mod, size) ==
    CASE mod.style = "NOLINT_SPECIFIC" ->
           (mod.target_line >= 1 /\ mod.target_line <= size)
              => \E p \in 1..Len(out) :
                    /\ ~IsInserted(out[p])
                    /\ CodeCountUpTo(out, p) = mod.target_line
                    /\ HasInline(out[p], mod.warning_type)
      [] mod.style = "NOLINTNEXTLINE" ->
           (mod.target_line >= 1 /\ mod.target_line <= size)
              => CommentAfter(out, NextLineComment(mod.indentation, mod.warning_type),
                              mod.target_line - 1)
      [] mod.style = "NOLINT_BLOCK" ->
           (/\ HasValue(mod.block_start_line)
            /\ HasValue(mod.block_end_line)
            /\ Value(mod.block_start_line) >= 1
            /\ Value(mod.block_start_line) <= Value(mod.block_end_line)
            /\ Value(mod.block_end_line) <= size)
              => /\ CommentAfter(out, BeginComment(mod.indentation, mod.warning_type),
                                 Value(mod.block_start_line) - 1)
                 /\ CommentAfter(out, EndComment(mod.indentation, mod.warning_type),
                                 Value(mod.block_end_line))
      [] OTHER -> TRUE

C38_CommentsAtTargets ==
    transformed.mod # NullOpt
        => \A k \in 1..Len(transformed.mod) :
              AtTarget(transformed.lines, transformed.mod[k], Len(transformed.file_lines))

\* C39: after any sequence of apply_modification calls on a file, in any
\* order of line numbers, every suppression is attached to the line that had
\* the line number of its modification in the file as it was loaded.
CommentWith(out, marker, type, n) ==
    \E p \in 1..Len(out) :
        /\ \E k \in 1..(Len(out[p]) - 1) : out[p][k] = marker /\ out[p][k + 1] = type
        /\ CodeCountUpTo(out, p) = n

SuppressionAtLine(out, mod) ==
    CASE mod.style = "NOLINT_SPECIFIC" ->
           \E p \in 1..Len(out) :
              /\ ~IsInserted(out[p])
              /\ CodeCountUpTo(out, p) = mod.line_number
              /\ HasInline(out[p], mod.warning_type)
      [] mod.style = "NOLINTNEXTLINE" ->
           CommentWith(out, "// NOLINTNEXTLINE(", mod.warning_type, mod.line_number - 1)
      [] mod.style = "NOLINT_BLOCK" ->
           /\ CommentWith(out, "// NOLINTBEGIN(", mod.warning_type, mod.block_start_line - 1)
           /\ CommentWith(out, "// NOLINTEND(", mod.warning_type, mod.block_end_line)
      [] OTHER -> TRUE

C39_OffsetsKeepTargets ==
    \A k \in 1..Len(transformed.mods) :
        SuppressionAtLine(transformed.file_data.lines, transformed.mods[k])

\* C40: after a session that a confirmed QUIT ended, a session file that
\* existed before is as it was: the decisions saved in it are still there.
C40_QuitKeepsSessionFile ==
    (run.phase = "DONE" /\ LastInput.event = "QUIT")
        => session = ExistingSessionFile

====
